---- MODULE Spec2Model ----
(***************************************************************************)
(* The control stack of ROTRON.C2C (src/C2C/hardware): the serial link,    *)
(* the motion queue, the watchdog and the communicator that wires them.    *)
(* Threads execute the methods step by step; a step is the code a thread   *)
(* runs between two points at which other threads can observe or block it  *)
(* (lock acquisition, a call through the link, a field assignment that an  *)
(* unlocked reader can see).                                               *)
(***************************************************************************)
EXTENDS Integers, Sequences, FiniteSets, TLC

\* ------------------------------------------------------------------ bounds
\* MotionQueue(serial_link, max_size): the constructor argument, kept small.
max_size == 2
\* Number of add() calls the callers make in one behaviour.
MaxCmds == 3
\* The clock stops at MaxTime; kick() is called while kick_count < MaxKicks.
MaxTime == 3
MaxKicks == 2
\* The timeout a caller passes to wait_until_empty, in ticks of the clock.
WaitTimeout == 1
\* The longest line the device sends, in words.
MaxLineLen == 3

\* ------------------------------------------------------------ vocabulary
\* Python's None for current_command.
None == 0
\* A threading.Lock that no thread holds; a held lock is named by its holder.
Unlocked == "unlocked"
\* stop_cmd = "$STOP$"; queued commands are the positive integers.
stop_cmd == -1
\* The threads of the program: callers of the public API, the link's
\* listener thread (_listen) and the communicator's update thread
\* (_update_worker).
Callers == {"caller1", "caller2"}
Threads == Callers \cup {"reader", "control"}

VARIABLES
    \* MotionQueue fields
    queue, busy, current_command,
    commands_sent, commands_completed, commands_dropped,
    lock,
    \* ESP32Serial: connection flag and the frames written to the transport
    connected, wire,
    \* per thread: position inside a method, update()'s local, last return value
    mpc, command, ret,
    \* history: next fresh command, commands accepted by add (in order),
    \* commands released by on_done (in order)
    \* and the number of send(stop_cmd) calls made by emergency_stop
    next_cmd, accepted, done_order, stop_calls,
    \* Watchdog fields; on_timeout / on_recovery: whether a subscriber is set
    timeout, enable_heartbeat, last_response, last_heartbeat, enabled,
    fault_detected, kick_count, timeout_count, heartbeat_count,
    on_timeout, on_recovery, wd_lock,
    \* time.time(), and how often each watchdog subscriber has been invoked
    now, timeout_calls, recovery_calls,
    \* ESP32Communicator fields (motion_queue / watchdog: the object exists),
    \* per thread the position in the communicator's or the listener's code,
    \* the line the listener is dispatching, send_command's argument
    is_connected, running, motion_queue, watchdog, command_log,
    opc, msg, command_string,
    \* the number of lines put into response_queue
    response_queue,
    \* ESP32Serial's subscribers: the attributes that are set, and those whose
    \* function raises when it is invoked; the line _handle_message was
    \* given last (self.last_ack) and the subscriber calls made for it so far
    subs, raisers, last_ack, events,
    \* the number of "callback error" lines the watchdog has printed
    callback_errors,
    \* the values MotionQueue.get_stats() has read so far for the dictionary
    \* it is building, in the order of its keys
    stats,
    \* the test script's position: the number of update() and DONE:MOVE
    \* calls it has made
    rounds,
    \* whether update() has printed "Send failed - requeueing"
    requeued,
    \* the list the last get_command_log() returned
    recent

mqVars   == <<queue, busy, current_command, commands_sent, commands_completed,
              commands_dropped, lock>>
linkVars == <<connected, wire>>
thrVars  == <<mpc, command, ret>>
histVars == <<next_cmd, accepted, done_order, stop_calls>>
wdVars   == <<timeout, enable_heartbeat, last_response, last_heartbeat, enabled,
              fault_detected, kick_count, timeout_count, heartbeat_count,
              on_timeout, on_recovery, wd_lock, now, timeout_calls, recovery_calls>>
orchVars == <<is_connected, running, motion_queue, watchdog, command_log,
              opc, msg, command_string, response_queue>>
dispVars == <<subs, raisers, last_ack, events>>
obsVars  == <<stats, rounds, requeued, recent>>
vars     == <<mqVars, linkVars, thrVars, histVars, wdVars, orchVars, dispVars,
              callback_errors, obsVars>>
\* What the motion queue's methods leave alone, and what the watchdog's do.
notMQ    == <<wdVars, orchVars, dispVars, callback_errors, obsVars>>
notWD    == <<mqVars, linkVars, histVars, orchVars, dispVars, callback_errors,
              obsVars>>
\* What update() leaves alone when it sends.
notMQSend == <<wdVars, orchVars, dispVars, callback_errors, stats, rounds,
               recent>>
\* The same for the two methods that invoke a subscriber.
notWDCallback == <<mqVars, linkVars, histVars, orchVars, dispVars, obsVars>>

\* ------------------------------------------------------------------ helpers
Goto(t, label) == mpc' = [mpc EXCEPT ![t] = label]
Return(t, value) == /\ mpc' = [mpc EXCEPT ![t] = "idle"]
                    /\ ret' = [ret EXCEPT ![t] = value]
\* Return from a method that had a local `command`: the local goes out of scope.
Drop(t) == command' = [command EXCEPT ![t] = None]

\* ESP32Serial.send: False when not connected; otherwise the write either
\* succeeds (True) or raises and is caught (False).
SendResults == IF connected THEN {TRUE, FALSE} ELSE {FALSE}

\* The transport after send(frame) returned ok.
Written(frame, ok) == IF ok THEN Append(wire, frame) ELSE wire

\* Watchdog(timeout=2.0, enable_heartbeat=False): the default period, in ticks
\* of the model's clock; the periods the constructor and set_timeout are given.
DefaultTimeout == 2
Timeouts == {1, 2}

\* Watchdog.__init__ at time `now`.
InitWatchdog(period, hb) ==
    /\ timeout = period
    /\ enable_heartbeat = hb
    /\ now = 0
    /\ last_response = 0
    /\ last_heartbeat = 0
    /\ enabled = TRUE
    /\ fault_detected = FALSE
    /\ kick_count = 0
    /\ timeout_count = 0
    /\ heartbeat_count = 0
    /\ on_timeout = FALSE
    /\ on_recovery = FALSE
    /\ wd_lock = Unlocked
    /\ timeout_calls = 0
    /\ recovery_calls = 0
    /\ callback_errors = 0

\* MotionQueue.__init__ over a connected link, with the threads outside any method.
InitQueue ==
    /\ queue = <<>>
    /\ busy = FALSE
    /\ current_command = None
    /\ commands_sent = 0
    /\ commands_completed = 0
    /\ commands_dropped = 0
    /\ lock = Unlocked
    /\ connected = TRUE
    /\ wire = <<>>
    /\ mpc = [t \in Threads |-> "idle"]
    /\ command = [t \in Threads |-> None]
    /\ ret = [t \in Threads |-> "None"]
    /\ next_cmd = 1
    /\ accepted = <<>>
    /\ done_order = <<>>
    /\ stop_calls = 0
    /\ stats = <<>>
    /\ rounds = 0
    /\ requeued = FALSE
    /\ recent = <<>>

\* ESP32Communicator.__init__: not connected, no layer built, empty log; no
\* thread is inside the communicator.
InitCommunicator ==
    /\ is_connected = FALSE
    /\ running = FALSE
    /\ motion_queue = FALSE
    /\ watchdog = FALSE
    /\ command_log = <<>>
    /\ opc = [t \in Threads |-> "idle"]
    /\ msg = "None"
    /\ command_string = None
    /\ response_queue = 0

\* ESP32Serial.__init__ with the subscribers `set` registered, of which
\* `bad` raise; no line read yet.
InitLink(set, bad) ==
    /\ subs = set
    /\ raisers = bad
    /\ last_ack = <<>>
    /\ events = <<>>

\* ----------------------------------------------------------- MotionQueue
Init ==
    /\ InitQueue
    /\ InitWatchdog(DefaultTimeout, FALSE)
    /\ InitCommunicator
    /\ InitLink({}, {})

\* A thread enters add(command) with a fresh command.
call_add(t) ==
    /\ mpc[t] = "idle"
    /\ next_cmd <= MaxCmds
    /\ mpc' = [mpc EXCEPT ![t] = "add"]
    /\ ret' = [ret EXCEPT ![t] = "None"]
    /\ command' = [command EXCEPT ![t] = next_cmd]
    /\ next_cmd' = next_cmd + 1
    /\ UNCHANGED <<mqVars, linkVars, accepted, done_order, stop_calls>>
    /\ UNCHANGED notMQ

\* A thread enters one of the methods without arguments.
call(t, method) ==
    /\ mpc[t] = "idle"
    /\ mpc' = [mpc EXCEPT ![t] = method]
    /\ ret' = [ret EXCEPT ![t] = "None"]
    /\ UNCHANGED <<mqVars, linkVars, command, histVars>>
    /\ UNCHANGED notMQ

\* add() without "with self.lock": the body runs whoever holds the lock.
add_unlocked(t) ==
    /\ mpc[t] = "add"
    /\ IF Len(queue) >= max_size
       THEN /\ commands_dropped' = commands_dropped + 1
            /\ Return(t, "False")
            /\ UNCHANGED <<queue, accepted>>
       ELSE /\ queue' = Append(queue, command[t])
            /\ accepted' = Append(accepted, command[t])
            /\ Return(t, "True")
            /\ UNCHANGED commands_dropped
    /\ Drop(t)
    /\ UNCHANGED <<busy, current_command, commands_sent, commands_completed, lock,
                   linkVars, next_cmd, done_order, stop_calls>>
    /\ UNCHANGED notMQ

\* add() with appendleft in place of append.
add_at_head(t) ==
    /\ mpc[t] = "add"
    /\ lock = Unlocked
    /\ IF Len(queue) >= max_size
       THEN /\ commands_dropped' = commands_dropped + 1
            /\ Return(t, "False")
            /\ UNCHANGED <<queue, accepted>>
       ELSE /\ queue' = <<command[t]>> \o queue
            /\ accepted' = Append(accepted, command[t])
            /\ Return(t, "True")
            /\ UNCHANGED commands_dropped
    /\ Drop(t)
    /\ UNCHANGED <<busy, current_command, commands_sent, commands_completed, lock,
                   linkVars, next_cmd, done_order, stop_calls>>
    /\ UNCHANGED notMQ

\* add(): the body under the lock.
add(t) ==
    /\ mpc[t] = "add"
    /\ lock = Unlocked
    /\ IF Len(queue) >= max_size
       THEN /\ commands_dropped' = commands_dropped + 1
            /\ Return(t, "False")
            /\ UNCHANGED <<queue, accepted>>
       ELSE /\ queue' = Append(queue, command[t])
            /\ accepted' = Append(accepted, command[t])
            /\ Return(t, "True")
            /\ UNCHANGED commands_dropped
    /\ Drop(t)
    /\ UNCHANGED <<busy, current_command, commands_sent, commands_completed, lock,
                   linkVars, next_cmd, done_order, stop_calls>>
    /\ UNCHANGED notMQ

\* update() without the "if self.busy: return" test.
update_ignores_busy(t) ==
    /\ mpc[t] = "update"
    /\ lock = Unlocked
    /\ IF queue = <<>>
       THEN /\ Return(t, "None")
            /\ UNCHANGED <<queue, lock, command>>
       ELSE /\ command' = [command EXCEPT ![t] = Head(queue)]
            /\ queue' = Tail(queue)
            /\ lock' = t
            /\ Goto(t, "update_send")
            /\ UNCHANGED ret
    /\ UNCHANGED <<busy, current_command, commands_sent, commands_completed,
                   commands_dropped, linkVars, histVars>>
    /\ UNCHANGED notMQ

\* update() that gives up a command in flight instead of waiting for it.
update_gives_up(t) ==
    /\ mpc[t] = "update"
    /\ lock = Unlocked
    /\ IF busy \/ queue = <<>>
       THEN /\ Return(t, "None")
            /\ busy' = FALSE
            /\ UNCHANGED <<queue, lock, command>>
       ELSE /\ command' = [command EXCEPT ![t] = Head(queue)]
            /\ queue' = Tail(queue)
            /\ lock' = t
            /\ Goto(t, "update_send")
            /\ UNCHANGED <<busy, ret>>
    /\ UNCHANGED <<current_command, commands_sent, commands_completed,
                   commands_dropped, linkVars, histVars>>
    /\ UNCHANGED notMQ

\* update(): take the lock, return if busy or empty, else pop the head.
update(t) ==
    /\ mpc[t] = "update"
    /\ lock = Unlocked
    /\ IF busy \/ queue = <<>>
       THEN /\ Return(t, "None")
            /\ UNCHANGED <<queue, lock, command>>
       ELSE /\ command' = [command EXCEPT ![t] = Head(queue)]
            /\ queue' = Tail(queue)
            /\ lock' = t
            /\ Goto(t, "update_send")
            /\ UNCHANGED ret
    /\ UNCHANGED <<busy, current_command, commands_sent, commands_completed,
                   commands_dropped, linkVars, histVars>>
    /\ UNCHANGED notMQ

\* update() that requeues a failed command with append (at the tail).
update_send_requeue_tail(t) ==
    /\ mpc[t] = "update_send"
    /\ \E ok \in SendResults :
         /\ wire' = Written(command[t], ok)
         /\ IF ok
            THEN /\ busy' = TRUE
                 /\ Goto(t, "update_commit")
                 /\ UNCHANGED <<queue, lock, ret, command>>
            ELSE /\ queue' = Append(queue, command[t])
                 /\ lock' = Unlocked
                 /\ Return(t, "None")
                 /\ Drop(t)
                 /\ UNCHANGED busy
         /\ requeued' = (requeued \/ ~ok)
    /\ UNCHANGED <<current_command, commands_sent, commands_completed,
                   commands_dropped, connected, histVars>>
    /\ UNCHANGED notMQSend

\* update() that does not put a command back when its send failed.
update_send_drops(t) ==
    /\ mpc[t] = "update_send"
    /\ \E ok \in SendResults :
         /\ wire' = Written(command[t], ok)
         /\ IF ok
            THEN /\ busy' = TRUE
                 /\ Goto(t, "update_commit")
                 /\ UNCHANGED <<queue, lock, ret, command>>
            ELSE /\ queue' = queue
                 /\ lock' = Unlocked
                 /\ Return(t, "None")
                 /\ Drop(t)
                 /\ UNCHANGED busy
         /\ requeued' = (requeued \/ ~ok)
    /\ UNCHANGED <<current_command, commands_sent, commands_completed,
                   commands_dropped, connected, histVars>>
    /\ UNCHANGED notMQSend

\* update() that gives up the lock after the send and before it sets busy.
update_send_unlocks(t) ==
    /\ mpc[t] = "update_send"
    /\ \E ok \in SendResults :
         /\ wire' = Written(command[t], ok)
         /\ IF ok
            THEN /\ lock' = Unlocked
                 /\ Goto(t, "update_commit")
                 /\ UNCHANGED <<queue, busy, ret, command>>
            ELSE /\ queue' = <<command[t]>> \o queue
                 /\ lock' = Unlocked
                 /\ Return(t, "None")
                 /\ Drop(t)
                 /\ UNCHANGED busy
         /\ requeued' = (requeued \/ ~ok)
    /\ UNCHANGED <<current_command, commands_sent, commands_completed,
                   commands_dropped, connected, histVars>>
    /\ UNCHANGED notMQSend

\* update(): self.serial.send(command); on True busy is set, on False the
\* command goes back to the head and the lock is released.
update_send(t) ==
    /\ mpc[t] = "update_send"
    /\ \E ok \in SendResults :
         /\ wire' = Written(command[t], ok)
         /\ IF ok
            THEN /\ busy' = TRUE
                 /\ Goto(t, "update_commit")
                 /\ UNCHANGED <<queue, lock, ret, command>>
            ELSE /\ queue' = <<command[t]>> \o queue
                 /\ lock' = Unlocked
                 /\ Return(t, "None")
                 /\ Drop(t)
                 /\ UNCHANGED busy
         /\ requeued' = (requeued \/ ~ok)
    /\ UNCHANGED <<current_command, commands_sent, commands_completed,
                   commands_dropped, connected, histVars>>
    /\ UNCHANGED notMQSend

\* update() that does not count the command it sent.
update_commit_uncounted(t) ==
    /\ mpc[t] = "update_commit"
    /\ current_command' = command[t]
    /\ commands_sent' = commands_sent
    /\ lock' = Unlocked
    /\ Return(t, "None")
    /\ Drop(t)
    /\ UNCHANGED <<queue, busy, commands_completed, commands_dropped,
                   linkVars, histVars>>
    /\ UNCHANGED notMQ

\* update(): current_command, command_start_time, commands_sent; lock released.
update_commit(t) ==
    /\ mpc[t] = "update_commit"
    /\ current_command' = command[t]
    /\ commands_sent' = commands_sent + 1
    /\ lock' = Unlocked
    /\ Return(t, "None")
    /\ Drop(t)
    /\ UNCHANGED <<queue, busy, commands_completed, commands_dropped,
                   linkVars, histVars>>
    /\ UNCHANGED notMQ

\* on_done() without the test of busy.
on_done_unchecked(t) ==
    /\ mpc[t] = "on_done"
    /\ lock = Unlocked
    /\ IF FALSE
       THEN /\ Return(t, "None")
            /\ UNCHANGED <<busy, lock, done_order>>
       ELSE /\ busy' = FALSE
            /\ done_order' = Append(done_order, current_command)
            /\ lock' = t
            /\ Goto(t, "on_done_commit")
            /\ UNCHANGED ret
    /\ UNCHANGED <<queue, current_command, commands_sent, commands_completed,
                   commands_dropped, linkVars, command, next_cmd, accepted, stop_calls>>
    /\ UNCHANGED notMQ

\* on_done(): take the lock; not busy -> return; else busy = False.
on_done(t) ==
    /\ mpc[t] = "on_done"
    /\ lock = Unlocked
    /\ IF ~busy
       THEN /\ Return(t, "None")
            /\ UNCHANGED <<busy, lock, done_order>>
       ELSE /\ busy' = FALSE
            /\ done_order' = Append(done_order, current_command)
            /\ lock' = t
            /\ Goto(t, "on_done_commit")
            /\ UNCHANGED ret
    /\ UNCHANGED <<queue, current_command, commands_sent, commands_completed,
                   commands_dropped, linkVars, command, next_cmd, accepted, stop_calls>>
    /\ UNCHANGED notMQ

\* on_done() that forgets "self.current_command = None".
on_done_commit_keeps_current(t) ==
    /\ mpc[t] = "on_done_commit"
    /\ commands_completed' = commands_completed + 1
    /\ lock' = Unlocked
    /\ Return(t, "None")
    /\ UNCHANGED <<queue, busy, current_command, commands_sent, commands_dropped,
                   linkVars, command, histVars>>
    /\ UNCHANGED notMQ

\* on_done(): current_command = None, commands_completed += 1; lock released.
on_done_commit(t) ==
    /\ mpc[t] = "on_done_commit"
    /\ current_command' = None
    /\ commands_completed' = commands_completed + 1
    /\ lock' = Unlocked
    /\ Return(t, "None")
    /\ UNCHANGED <<queue, busy, commands_sent, commands_dropped,
                   linkVars, command, histVars>>
    /\ UNCHANGED notMQ

\* clear() that also gives up the command in flight.
clear_releases_flight(t) ==
    /\ mpc[t] \in {"clear", "es_clear"}
    /\ lock = Unlocked
    /\ queue' = <<>>
    /\ IF mpc[t] = "es_clear"
       THEN /\ \E ok \in SendResults : wire' = Written(stop_cmd, ok)
            /\ stop_calls' = stop_calls + 1
            /\ busy' = FALSE
            /\ current_command' = None
       ELSE /\ busy' = FALSE
            /\ current_command' = None
            /\ UNCHANGED <<wire, stop_calls>>
    /\ Return(t, "None")
    /\ UNCHANGED <<commands_sent, commands_completed, commands_dropped, lock,
                   connected, command, next_cmd, accepted, done_order>>
    /\ UNCHANGED notMQ

\* clear(): under the lock, drop the pending entries.  Called directly
\* ("clear") or from inside emergency_stop ("es_clear"); in the latter case
\* the rest of emergency_stop follows: send "$STOP$", busy = False,
\* current_command = None.
clear(t) ==
    /\ mpc[t] \in {"clear", "es_clear"}
    /\ lock = Unlocked
    /\ queue' = <<>>
    /\ IF mpc[t] = "es_clear"
       THEN /\ \E ok \in SendResults : wire' = Written(stop_cmd, ok)
            /\ stop_calls' = stop_calls + 1
            /\ busy' = FALSE
            /\ current_command' = None
       ELSE UNCHANGED <<wire, busy, current_command, stop_calls>>
    /\ Return(t, "None")
    /\ UNCHANGED <<commands_sent, commands_completed, commands_dropped, lock,
                   connected, command, next_cmd, accepted, done_order>>
    /\ UNCHANGED notMQ

\* emergency_stop(): "with self.lock:" and then the call self.clear().
emergency_stop(t) ==
    /\ mpc[t] = "emergency_stop"
    /\ lock = Unlocked
    /\ lock' = t
    /\ Goto(t, "es_clear")
    /\ UNCHANGED <<queue, busy, current_command, commands_sent, commands_completed,
                   commands_dropped, linkVars, command, ret, histVars>>
    /\ UNCHANGED notMQ

\* A thread enters wait_until_empty(WaitTimeout): start_time = time.time().
\* The call is made while the clock can still pass the deadline.
call_wait_until_empty(t) ==
    /\ mpc[t] = "idle"
    /\ now + WaitTimeout < MaxTime
    /\ mpc' = [mpc EXCEPT ![t] = "wait_until_empty"]
    /\ ret' = [ret EXCEPT ![t] = "None"]
    /\ command' = [command EXCEPT ![t] = now]
    /\ UNCHANGED <<mqVars, linkVars, histVars>>
    /\ UNCHANGED notMQ

\* wait_until_empty(): "with self.lock:" return True when not busy and the
\* queue is empty; otherwise release the lock and go on to the timeout test.
wait_until_empty(t) ==
    /\ mpc[t] = "wait_until_empty"
    /\ lock = Unlocked
    /\ IF ~busy /\ Len(queue) = 0
       THEN Return(t, "True") /\ Drop(t)
       ELSE Goto(t, "wait_sleep") /\ UNCHANGED <<ret, command>>
    /\ UNCHANGED <<mqVars, linkVars, histVars>>
    /\ UNCHANGED notMQ

\* wait_until_empty(): "if time.time() - start_time > timeout: return False",
\* else sleep and poll again.
wait_sleep(t) ==
    /\ mpc[t] = "wait_sleep"
    /\ IF now - command[t] > WaitTimeout
       THEN Return(t, "False") /\ Drop(t)
       ELSE Goto(t, "wait_until_empty") /\ UNCHANGED <<ret, command>>
    /\ UNCHANGED <<mqVars, linkVars, histVars>>
    /\ UNCHANGED notMQ

\* What each thread calls: callers use add / clear / emergency_stop, the
\* listener delivers DONE:MOVE (on_done) and FAULT (clear), the update
\* thread runs update and, on a watchdog timeout, emergency_stop.
MQMethods(t) ==
    IF t \in Callers THEN {"clear", "emergency_stop"}
    ELSE IF t = "reader" THEN {"on_done", "clear"}
    ELSE {"update", "emergency_stop"}

MQStep(t) ==
    \/ (t \in Callers /\ call_add(t))
    \/ \E m \in MQMethods(t) : call(t, m)
    \/ add(t)
    \/ update(t)
    \/ update_send(t)
    \/ update_commit(t)
    \/ on_done(t)
    \/ on_done_commit(t)
    \/ clear(t)
    \/ emergency_stop(t)

NextMQ == \E t \in Threads : MQStep(t)

SpecMQ == Init /\ [][NextMQ]_vars

\* The steps a thread takes inside a method (everything but the decision to
\* call one).  The interpreter keeps scheduling every thread, and a thread
\* waiting for a lock that is released again and again gets it.
MQBody(t) ==
    \/ add(t)
    \/ update(t)
    \/ update_send(t)
    \/ update_commit(t)
    \/ on_done(t)
    \/ on_done_commit(t)
    \/ clear(t)
    \/ emergency_stop(t)

FairMQ == SpecMQ /\ \A t \in Threads : SF_vars(MQBody(t))

\* ---------------------------------------------------------------- Watchdog
\* time.time() advances.
Tick ==
    /\ now < MaxTime
    /\ now' = now + 1
    /\ UNCHANGED <<timeout, enable_heartbeat, last_response, last_heartbeat, enabled,
                   fault_detected, kick_count, timeout_count, heartbeat_count,
                   on_timeout, on_recovery, wd_lock, timeout_calls, recovery_calls>>
    /\ UNCHANGED <<notWD, thrVars>>

\* What a watchdog method leaves alone besides the watchdog's own fields.
WDFrame == UNCHANGED <<notWD, command, now>>

\* A thread enters a watchdog method that takes no argument.
wd_call(t, method) ==
    /\ mpc[t] = "idle"
    /\ method = "kick" => kick_count < MaxKicks
    /\ mpc' = [mpc EXCEPT ![t] = method]
    /\ ret' = [ret EXCEPT ![t] = "None"]
    /\ UNCHANGED <<wdVars, notWD, command>>

\* A thread enters set_timeout(period).
call_set_timeout(t, period) ==
    /\ mpc[t] = "idle"
    /\ mpc' = [mpc EXCEPT ![t] = "set_timeout"]
    /\ ret' = [ret EXCEPT ![t] = "None"]
    /\ command' = [command EXCEPT ![t] = period]
    /\ UNCHANGED <<wdVars, notWD>>

\* watchdog.on_timeout = f / watchdog.on_recovery = f (plain attribute writes).
subscribe(t, which) ==
    /\ mpc[t] = "idle"
    /\ \/ which = "on_timeout" /\ ~on_timeout /\ on_timeout' = TRUE
          /\ UNCHANGED on_recovery
       \/ which = "on_recovery" /\ ~on_recovery /\ on_recovery' = TRUE
          /\ UNCHANGED on_timeout
    /\ UNCHANGED <<timeout, enable_heartbeat, last_response, last_heartbeat, enabled,
                   fault_detected, kick_count, timeout_count, heartbeat_count,
                   wd_lock, now, timeout_calls, recovery_calls>>
    /\ UNCHANGED <<notWD, thrVars>>

\* kick() without the "if self.fault_detected" test around the recovery call.
kick_always_recovers(t) ==
    /\ mpc[t] \in {"kick", "hb_kick"}
    /\ wd_lock = Unlocked
    /\ last_response' = now
    /\ kick_count' = kick_count + 1
    /\ fault_detected' = FALSE
    /\ recovery_calls' = recovery_calls + (IF on_recovery THEN 1 ELSE 0)
    /\ callback_errors' =
         callback_errors + (IF on_recovery /\ "on_recovery" \in raisers THEN 1 ELSE 0)
    /\ Return(t, "None")
    /\ UNCHANGED <<timeout, enable_heartbeat, last_heartbeat, enabled, timeout_count,
                   heartbeat_count, on_timeout, on_recovery, wd_lock, timeout_calls>>
    /\ UNCHANGED <<notWDCallback, command, now>>

\* kick() that starts its count again when it recovers from a fault.
kick_recounts(t) ==
    /\ mpc[t] \in {"kick", "hb_kick"}
    /\ wd_lock = Unlocked
    /\ last_response' = now
    /\ kick_count' = (IF fault_detected THEN 0 ELSE kick_count + 1)
    /\ fault_detected' = FALSE
    /\ recovery_calls' =
         recovery_calls + (IF fault_detected /\ on_recovery THEN 1 ELSE 0)
    /\ callback_errors' =
         callback_errors + (IF fault_detected /\ on_recovery /\ "on_recovery" \in raisers
                            THEN 1 ELSE 0)
    /\ Return(t, "None")
    /\ UNCHANGED <<timeout, enable_heartbeat, last_heartbeat, enabled, timeout_count,
                   heartbeat_count, on_timeout, on_recovery, wd_lock, timeout_calls>>
    /\ UNCHANGED <<notWDCallback, command, now>>

\* kick(): under the lock, last_response = now, kick_count += 1, and when a
\* fault is pending clear it and invoke on_recovery; an exception of the
\* subscriber is caught and reported.  Called directly ("kick") or from
\* inside heartbeat ("hb_kick").
kick(t) ==
    /\ mpc[t] \in {"kick", "hb_kick"}
    /\ wd_lock = Unlocked
    /\ last_response' = now
    /\ kick_count' = kick_count + 1
    /\ fault_detected' = FALSE
    /\ recovery_calls' =
         recovery_calls + (IF fault_detected /\ on_recovery THEN 1 ELSE 0)
    /\ callback_errors' =
         callback_errors + (IF fault_detected /\ on_recovery /\ "on_recovery" \in raisers
                            THEN 1 ELSE 0)
    /\ Return(t, "None")
    /\ UNCHANGED <<timeout, enable_heartbeat, last_heartbeat, enabled, timeout_count,
                   heartbeat_count, on_timeout, on_recovery, wd_lock, timeout_calls>>
    /\ UNCHANGED <<notWDCallback, command, now>>

\* heartbeat(): "with self.lock:", last_heartbeat, heartbeat_count, and then
\* the call self.kick().
heartbeat(t) ==
    /\ mpc[t] = "heartbeat"
    /\ wd_lock = Unlocked
    /\ wd_lock' = t
    /\ last_heartbeat' = now
    /\ heartbeat_count' = heartbeat_count + 1
    /\ Goto(t, "hb_kick")
    /\ UNCHANGED <<timeout, enable_heartbeat, last_response, enabled, fault_detected,
                   kick_count, timeout_count, on_timeout, on_recovery,
                   timeout_calls, recovery_calls, ret>>
    /\ WDFrame

\* check(): "if not self.enabled: return", read without the lock.
check(t) ==
    /\ mpc[t] = "check"
    /\ IF enabled THEN Goto(t, "check_lock") /\ UNCHANGED ret
                  ELSE Return(t, "None")
    /\ UNCHANGED wdVars
    /\ WDFrame

\* The two overrun tests of check().
ResponseOverrun == now - last_response > timeout
HeartbeatOverrun == enable_heartbeat /\ 2 * (now - last_heartbeat) > 3 * timeout

\* check() without the "if not self.fault_detected" tests.
check_lock_refires(t) ==
    /\ mpc[t] = "check_lock"
    /\ wd_lock = Unlocked
    /\ LET fire == ResponseOverrun \/ HeartbeatOverrun
       IN  /\ fault_detected' = (fault_detected \/ fire)
           /\ timeout_count' = timeout_count + (IF fire THEN 1 ELSE 0)
           /\ timeout_calls' = timeout_calls + (IF fire /\ on_timeout THEN 1 ELSE 0)
           /\ callback_errors' =
                callback_errors + (IF fire /\ on_timeout /\ "on_timeout" \in raisers
                                   THEN 1 ELSE 0)
           /\ Return(t, IF fire THEN "WatchdogTimeout" ELSE "None")
    /\ UNCHANGED <<timeout, enable_heartbeat, last_response, last_heartbeat, enabled,
                   kick_count, heartbeat_count, on_timeout, on_recovery, wd_lock,
                   recovery_calls>>
    /\ UNCHANGED <<notWDCallback, command, now>>

\* check() without the heartbeat test.
check_lock_response_only(t) ==
    /\ mpc[t] = "check_lock"
    /\ wd_lock = Unlocked
    /\ LET fire == /\ ~fault_detected
                   /\ ResponseOverrun
       IN  /\ fault_detected' = (fault_detected \/ fire)
           /\ timeout_count' = timeout_count + (IF fire THEN 1 ELSE 0)
           /\ timeout_calls' = timeout_calls + (IF fire /\ on_timeout THEN 1 ELSE 0)
           /\ callback_errors' =
                callback_errors + (IF fire /\ on_timeout /\ "on_timeout" \in raisers
                                   THEN 1 ELSE 0)
           /\ Return(t, IF fire THEN "WatchdogTimeout" ELSE "None")
    /\ UNCHANGED <<timeout, enable_heartbeat, last_response, last_heartbeat, enabled,
                   kick_count, heartbeat_count, on_timeout, on_recovery, wd_lock,
                   recovery_calls>>
    /\ UNCHANGED <<notWDCallback, command, now>>

\* check(): under the lock.  The response test comes first; when it fires
\* (overrun and no fault pending) the method raises WatchdogTimeout and the
\* heartbeat test is not reached; otherwise the heartbeat test may fire.  An
\* exception of on_timeout is caught and reported before the raise.
check_lock(t) ==
    /\ mpc[t] = "check_lock"
    /\ wd_lock = Unlocked
    /\ LET fire == /\ ~fault_detected
                   /\ ResponseOverrun \/ HeartbeatOverrun
       IN  /\ fault_detected' = (fault_detected \/ fire)
           /\ timeout_count' = timeout_count + (IF fire THEN 1 ELSE 0)
           /\ timeout_calls' = timeout_calls + (IF fire /\ on_timeout THEN 1 ELSE 0)
           /\ callback_errors' =
                callback_errors + (IF fire /\ on_timeout /\ "on_timeout" \in raisers
                                   THEN 1 ELSE 0)
           /\ Return(t, IF fire THEN "WatchdogTimeout" ELSE "None")
    /\ UNCHANGED <<timeout, enable_heartbeat, last_response, last_heartbeat, enabled,
                   kick_count, heartbeat_count, on_timeout, on_recovery, wd_lock,
                   recovery_calls>>
    /\ UNCHANGED <<notWDCallback, command, now>>

\* is_healthy(): under the lock, now - last_response < timeout.  Called
\* directly ("is_healthy") or from inside get_stats ("gs_is_healthy").
is_healthy(t) ==
    /\ mpc[t] \in {"is_healthy", "gs_is_healthy"}
    /\ wd_lock = Unlocked
    /\ Return(t, IF now - last_response < timeout THEN "True" ELSE "False")
    /\ UNCHANGED wdVars
    /\ WDFrame

\* get_stats(): "with self.lock:" and then, building the dict, the call
\* self.is_healthy().
get_stats(t) ==
    /\ mpc[t] = "get_stats"
    /\ wd_lock = Unlocked
    /\ wd_lock' = t
    /\ Goto(t, "gs_is_healthy")
    /\ UNCHANGED <<timeout, enable_heartbeat, last_response, last_heartbeat, enabled,
                   fault_detected, kick_count, timeout_count, heartbeat_count,
                   on_timeout, on_recovery, now, timeout_calls, recovery_calls, ret>>
    /\ UNCHANGED <<notWD, command>>

\* enable() that also drops a pending fault, as reset() does.
enable_clears_fault(t) ==
    /\ mpc[t] = "enable"
    /\ wd_lock = Unlocked
    /\ enabled' = TRUE
    /\ last_response' = now
    /\ fault_detected' = FALSE
    /\ Return(t, "None")
    /\ UNCHANGED <<timeout, enable_heartbeat, last_heartbeat,
                   kick_count, timeout_count, heartbeat_count, on_timeout,
                   on_recovery, wd_lock, timeout_calls, recovery_calls>>
    /\ WDFrame

\* enable(): enabled = True and the response timer restarts.
enable(t) ==
    /\ mpc[t] = "enable"
    /\ wd_lock = Unlocked
    /\ enabled' = TRUE
    /\ last_response' = now
    /\ Return(t, "None")
    /\ UNCHANGED <<timeout, enable_heartbeat, last_heartbeat, fault_detected,
                   kick_count, timeout_count, heartbeat_count, on_timeout,
                   on_recovery, wd_lock, timeout_calls, recovery_calls>>
    /\ WDFrame

\* disable(): enabled = False.
disable(t) ==
    /\ mpc[t] = "disable"
    /\ wd_lock = Unlocked
    /\ enabled' = FALSE
    /\ Return(t, "None")
    /\ UNCHANGED <<timeout, enable_heartbeat, last_response, last_heartbeat,
                   fault_detected, kick_count, timeout_count, heartbeat_count,
                   on_timeout, on_recovery, wd_lock, timeout_calls, recovery_calls>>
    /\ WDFrame

\* reset() that also starts the counters again.
reset_zeroes_counters(t) ==
    /\ mpc[t] = "reset"
    /\ wd_lock = Unlocked
    /\ last_response' = now
    /\ last_heartbeat' = now
    /\ fault_detected' = FALSE
    /\ timeout_count' = 0
    /\ Return(t, "None")
    /\ UNCHANGED <<timeout, enable_heartbeat, enabled, kick_count,
                   heartbeat_count, on_timeout, on_recovery, wd_lock,
                   timeout_calls, recovery_calls>>
    /\ WDFrame

\* reset(): both timers restart and the fault flag is cleared, no callback.
reset(t) ==
    /\ mpc[t] = "reset"
    /\ wd_lock = Unlocked
    /\ last_response' = now
    /\ last_heartbeat' = now
    /\ fault_detected' = FALSE
    /\ Return(t, "None")
    /\ UNCHANGED <<timeout, enable_heartbeat, enabled, kick_count, timeout_count,
                   heartbeat_count, on_timeout, on_recovery, wd_lock,
                   timeout_calls, recovery_calls>>
    /\ WDFrame

\* set_timeout(period): timeout = period.
set_timeout(t) ==
    /\ mpc[t] = "set_timeout"
    /\ wd_lock = Unlocked
    /\ timeout' = command[t]
    /\ Return(t, "None")
    /\ Drop(t)
    /\ UNCHANGED <<enable_heartbeat, last_response, last_heartbeat, enabled,
                   fault_detected, kick_count, timeout_count, heartbeat_count,
                   on_timeout, on_recovery, wd_lock, timeout_calls, recovery_calls>>
    /\ UNCHANGED <<notWD, now>>

\* Who calls what on a stand-alone watchdog: the update thread checks, a
\* caller (as the module's own tests do) uses the whole interface.
WDMethods(t) ==
    IF t = "caller1"
    THEN {"kick", "heartbeat", "check", "is_healthy", "get_stats",
          "enable", "disable", "reset"}
    ELSE IF t = "control" THEN {"check"}
    ELSE {}

WDStep(t) ==
    \/ \E m \in WDMethods(t) : wd_call(t, m)
    \/ (t = "caller1" /\ \E period \in Timeouts : call_set_timeout(t, period))
    \/ (t = "caller1" /\ \E which \in {"on_timeout", "on_recovery"} : subscribe(t, which))
    \/ kick(t)
    \/ heartbeat(t)
    \/ check(t)
    \/ check_lock(t)
    \/ is_healthy(t)
    \/ get_stats(t)
    \/ enable(t)
    \/ disable(t)
    \/ reset(t)
    \/ set_timeout(t)

NextWD == Tick \/ \E t \in Threads : WDStep(t)

\* A watchdog constructed with either period and with or without heartbeat
\* monitoring.
InitWD ==
    /\ InitQueue
    /\ \E period \in Timeouts, hb \in BOOLEAN : InitWatchdog(period, hb)
    /\ InitCommunicator
    /\ InitLink({}, {})

SpecWD == InitWD /\ [][NextWD]_vars

\* The steps a thread takes inside a watchdog method; as for the queue, a
\* thread inside a method keeps being scheduled and gets a lock that keeps
\* being released.
WDBody(t) ==
    \/ kick(t)
    \/ heartbeat(t)
    \/ check(t)
    \/ check_lock(t)
    \/ is_healthy(t)
    \/ get_stats(t)
    \/ enable(t)
    \/ disable(t)
    \/ reset(t)
    \/ set_timeout(t)

FairWD == SpecWD /\ \A t \in Threads : SF_vars(WDBody(t))

\* -------------------------------------------------------------- ESP32Serial
\* A line is a sequence of words; the colon is a word of its own, the other
\* words contain none.  These are the words of the ACK protocol.
Words == {"ACK", "DONE", "MOVE", "STOP", "FAULT", "HB", ":"}

\* The stripped, non-empty lines _listen passes to _handle_message.
Lines == UNION {[1..n -> Words] : n \in 1..MaxLineLen}

\* The subscriber attributes of ESP32Serial: the generic one and the five
\* specific ones.
Specific == {"on_ack_move", "on_done_move", "on_ack_stop", "on_fault", "on_heartbeat"}
Subscribers == {"on_message"} \cup Specific

\* msg.startswith(prefix)
startswith(m, prefix) ==
    Len(m) >= Len(prefix) /\ SubSeq(m, 1, Len(prefix)) = prefix

\* msg.split(":", 1)[1]: what follows the first colon.
split_1(m) ==
    LET first == CHOOSE i \in 1..Len(m) :
                     m[i] = ":" /\ \A j \in 1..(i - 1) : m[j] # ":"
    IN  SubSeq(m, first + 1, Len(m))

\* fault_type = msg.split(":", 1)[1] if ":" in msg else "UNKNOWN"
fault_type(m) ==
    IF \E i \in 1..Len(m) : m[i] = ":" THEN split_1(m) ELSE <<"UNKNOWN">>

\* The if / elif chain of _handle_message with "HB" matched by prefix.
Classify_hb_prefix(m) ==
    IF m = <<"ACK", ":", "MOVE">> THEN "on_ack_move"
    ELSE IF m = <<"DONE", ":", "MOVE">> THEN "on_done_move"
    ELSE IF m = <<"ACK", ":", "STOP">> THEN "on_ack_stop"
    ELSE IF startswith(m, <<"FAULT", ":">>) THEN "on_fault"
    ELSE IF startswith(m, <<"HB">>) THEN "on_heartbeat"
    ELSE "none"

\* The if / elif chain of _handle_message: the subscriber a line goes to.
Classify(m) ==
    IF m = <<"ACK", ":", "MOVE">> THEN "on_ack_move"
    ELSE IF m = <<"DONE", ":", "MOVE">> THEN "on_done_move"
    ELSE IF m = <<"ACK", ":", "STOP">> THEN "on_ack_stop"
    ELSE IF startswith(m, <<"FAULT", ":">>) THEN "on_fault"
    ELSE IF m = <<"HB">> THEN "on_heartbeat"
    ELSE "none"

\* A subscriber is called with `arg`; whether it raised is kept, the
\* exception itself is caught at the call.
Called(sub, arg) == [sub |-> sub, arg |-> arg, raised |-> sub \in raisers]

\* What the listener's steps leave alone.
LinkFrame ==
    UNCHANGED <<mqVars, linkVars, thrVars, histVars, wdVars, is_connected, running,
                motion_queue, watchdog, command_log, msg, command_string,
                response_queue, subs, raisers, callback_errors, obsVars>>

\* _listen: a complete line m is split off the buffer and passed to
\* _handle_message, which stores it in last_ack.
link_listen(t, m) ==
    /\ opc[t] = "link_listen"
    /\ last_ack' = m
    /\ events' = <<>>
    /\ opc' = [opc EXCEPT ![t] = "handle_message"]
    /\ LinkFrame

\* _handle_message that calls the generic subscriber for known types only.
handle_message_known_only(t) ==
    /\ opc[t] = "handle_message"
    /\ events' = IF "on_message" \in subs /\ Classify(last_ack) # "none"
                 THEN Append(events, Called("on_message", last_ack))
                 ELSE events
    /\ opc' = [opc EXCEPT ![t] = "handle_message_type"]
    /\ UNCHANGED last_ack
    /\ LinkFrame

\* _handle_message without the try / except around the generic call: an
\* exception of the subscriber ends the handling of the line.
handle_message_propagates(t) ==
    /\ opc[t] = "handle_message"
    /\ events' = IF "on_message" \in subs
                 THEN Append(events, Called("on_message", last_ack))
                 ELSE events
    /\ opc' = [opc EXCEPT ![t] = IF "on_message" \in subs \cap raisers
                                 THEN "link_listen"
                                 ELSE "handle_message_type"]
    /\ UNCHANGED last_ack
    /\ LinkFrame

\* _handle_message: "if self.on_message:" the generic subscriber is called
\* with the line, inside try / except.
handle_message(t) ==
    /\ opc[t] = "handle_message"
    /\ events' = IF "on_message" \in subs
                 THEN Append(events, Called("on_message", last_ack))
                 ELSE events
    /\ opc' = [opc EXCEPT ![t] = "handle_message_type"]
    /\ UNCHANGED last_ack
    /\ LinkFrame

\* _handle_message: the dispatch by type; the subscriber of the line's type
\* is called when it is set (on_fault with the fault type, the others with
\* no argument), inside try / except.  Then _listen goes on.
handle_message_type(t) ==
    /\ opc[t] = "handle_message_type"
    /\ LET kind == Classify(last_ack)
       IN  events' = IF kind \in subs
                     THEN Append(events,
                                 Called(kind, IF kind = "on_fault"
                                              THEN fault_type(last_ack) ELSE <<>>))
                     ELSE events
    /\ opc' = [opc EXCEPT ![t] = "link_listen"]
    /\ UNCHANGED last_ack
    /\ LinkFrame

NextLink ==
    \/ \E m \in Lines : link_listen("reader", m)
    \/ handle_message("reader")
    \/ handle_message_type("reader")

\* A connected link whose listener thread runs.  The generic subscriber is
\* unset, set or set and raising, and so are the specific ones.
InitLinkSpec ==
    /\ InitQueue
    /\ InitWatchdog(DefaultTimeout, FALSE)
    /\ is_connected = FALSE
    /\ running = FALSE
    /\ motion_queue = FALSE
    /\ watchdog = FALSE
    /\ command_log = <<>>
    /\ opc = [t \in Threads |-> IF t = "reader" THEN "link_listen" ELSE "idle"]
    /\ msg = "None"
    /\ command_string = None
    /\ response_queue = 0
    /\ \E G \in SUBSET {"on_message"}, S \in {{}, Specific} :
         \E badG \in SUBSET G, badS \in {{}, S} :
             InitLink(G \cup S, badG \cup badS)

SpecLink == InitLinkSpec /\ [][NextLink]_vars

\* ------------------------------------------- subscribers that raise
\* One line of each type and one of none.
SampleLines ==
    {<<"ACK", ":", "MOVE">>, <<"DONE", ":", "MOVE">>, <<"ACK", ":", "STOP">>,
     <<"FAULT", ":", "STOP">>, <<"HB">>, <<"MOVE">>}

\* The watchdog's two subscriber attributes.
WatchdogSubscribers == {"on_timeout", "on_recovery"}

\* A link with every subscriber set and a watchdog used by two threads, as
\* an application wires them: the listener dispatches lines, a caller sets
\* the watchdog's subscribers and kicks, the update thread checks.
NextSubs ==
    \/ \E m \in SampleLines : link_listen("reader", m)
    \/ handle_message("reader")
    \/ handle_message_type("reader")
    \/ Tick
    \/ \E which \in WatchdogSubscribers : subscribe("caller1", which)
    \/ wd_call("caller1", "kick")
    \/ kick("caller1")
    \/ wd_call("control", "check")
    \/ check("control")
    \/ check_lock("control")

\* Any of the subscribers may be one that raises.
InitSubs ==
    /\ InitQueue
    /\ InitWatchdog(DefaultTimeout, FALSE)
    /\ is_connected = FALSE
    /\ running = FALSE
    /\ motion_queue = FALSE
    /\ watchdog = FALSE
    /\ command_log = <<>>
    /\ opc = [t \in Threads |-> IF t = "reader" THEN "link_listen" ELSE "idle"]
    /\ msg = "None"
    /\ command_string = None
    /\ response_queue = 0
    /\ \E badG \in SUBSET {"on_message"}, badS \in {{}, Specific},
          badW \in SUBSET WatchdogSubscribers :
             InitLink(Subscribers, badG \cup badS \cup badW)

SpecSubs == InitSubs /\ [][NextSubs]_vars

\* ------------------------------------------- MotionQueue with a waiting caller
\* The queue as in SpecMQ, with time passing and one caller that also uses
\* wait_until_empty (as a teach playback does).
NextWait ==
    \/ NextMQ
    \/ Tick
    \/ call_wait_until_empty("caller2")
    \/ wait_until_empty("caller2")
    \/ wait_sleep("caller2")

SpecWait == Init /\ [][NextWait]_vars

\* Threads inside a method keep being scheduled, the waiting caller too, and
\* the clock keeps running.
FairWait ==
    /\ SpecWait
    /\ \A t \in Threads : SF_vars(MQBody(t))
    /\ SF_vars(wait_until_empty("caller2") \/ wait_sleep("caller2"))
    /\ WF_vars(Tick)

\* ------------------------------------------------------- ESP32Communicator
\* self.max_log_size, and the enable_watchdog argument's default.
max_log_size == 1000
enable_watchdog == TRUE

\* The lines the device sends.
Messages == {"ACK:MOVE", "DONE:MOVE", "FAULT:LIMIT", "HB"}

\* _log_command that trims with [:max_log_size], keeping the oldest entries.
Logged_keeps_oldest(log, c, sent) ==
    LET grown == Append(log, [command |-> c, sent |-> sent])
    IN  IF Len(grown) > max_log_size
        THEN SubSeq(grown, 1, max_log_size)
        ELSE grown

\* _log_command(command_string, sent): append, then keep the last
\* max_log_size entries.
Logged(log, c, sent) ==
    LET grown == Append(log, [command |-> c, sent |-> sent])
    IN  IF Len(grown) > max_log_size
        THEN SubSeq(grown, Len(grown) - max_log_size + 1, Len(grown))
        ELSE grown

\* What the communicator's steps leave alone besides its own fields: the
\* response queue (but for the message handler), the link's dispatch state
\* and the watchdog's error count.
OrchFrame == UNCHANGED <<response_queue, dispVars, callback_errors, obsVars>>

\* Thread t, outside any method, calls `method` and continues at `label`
\* once the method has returned.
Invoke(t, method, label) ==
    /\ mpc' = [mpc EXCEPT ![t] = method]
    /\ ret' = [ret EXCEPT ![t] = "None"]
    /\ opc' = [opc EXCEPT ![t] = label]

\* connect(): the first connect of a communicator.  serial_link.connect()
\* fails (False is returned) or succeeds; then the queue and the watchdog are
\* built, on_message is wrapped, on_timeout is set, and both threads start.
connect(t) ==
    /\ opc[t] = "idle" /\ mpc[t] = "idle"
    /\ ~is_connected /\ ~motion_queue
    /\ \E ok \in BOOLEAN :
         IF ok
         THEN /\ connected' = TRUE
              /\ motion_queue' = TRUE
              /\ queue' = <<>> /\ busy' = FALSE /\ current_command' = None
              /\ commands_sent' = 0 /\ commands_completed' = 0
              /\ commands_dropped' = 0 /\ lock' = Unlocked
              /\ watchdog' = enable_watchdog
              /\ timeout' = DefaultTimeout /\ enable_heartbeat' = FALSE
              /\ last_response' = now /\ last_heartbeat' = now
              /\ enabled' = TRUE /\ fault_detected' = FALSE
              /\ kick_count' = 0 /\ timeout_count' = 0 /\ heartbeat_count' = 0
              /\ on_timeout' = enable_watchdog /\ on_recovery' = FALSE
              /\ wd_lock' = Unlocked
              /\ running' = TRUE
              /\ is_connected' = TRUE
              /\ opc' = [opc EXCEPT !["reader"] = "listen", !["control"] = "loop_top"]
              /\ ret' = [ret EXCEPT ![t] = "True"]
         ELSE /\ ret' = [ret EXCEPT ![t] = "False"]
              /\ UNCHANGED <<mqVars, connected, timeout, enable_heartbeat,
                             last_response, last_heartbeat, enabled, fault_detected,
                             kick_count, timeout_count, heartbeat_count, on_timeout,
                             on_recovery, wd_lock, is_connected, running,
                             motion_queue, watchdog, opc>>
    /\ UNCHANGED <<wire, mpc, command, histVars, now, timeout_calls, recovery_calls,
                   command_log, msg, command_string, response_queue, dispVars,
                   callback_errors, obsVars>>

\* send_command that tests for the queue object instead of is_connected.
send_command_layer_test(t, priority) ==
    /\ opc[t] = "idle" /\ mpc[t] = "idle"
    /\ next_cmd <= MaxCmds
    /\ next_cmd' = next_cmd + 1
    /\ LET c == IF priority THEN stop_cmd ELSE next_cmd
       IN  IF ~motion_queue
           THEN /\ command_log' = Logged(command_log, c, FALSE)
                /\ ret' = [ret EXCEPT ![t] = "False"]
                /\ UNCHANGED <<mpc, opc, command, command_string>>
           ELSE /\ command_string' = c
                /\ IF priority
                   THEN /\ Invoke(t, "emergency_stop", "send_command_priority")
                        /\ UNCHANGED command
                   ELSE /\ Invoke(t, "add", "send_command_add")
                        /\ command' = [command EXCEPT ![t] = c]
                /\ UNCHANGED command_log
    /\ UNCHANGED <<mqVars, linkVars, accepted, done_order, stop_calls, wdVars,
                   is_connected, running, motion_queue, watchdog, msg>>
    /\ OrchFrame

\* send_command(command_string, priority).  Not connected: log the command
\* as not sent and return False.  Connected: with priority call
\* motion_queue.emergency_stop(), without it motion_queue.add(command_string).
\* A priority call passes the stop frame, as the UI does.
send_command(t, priority) ==
    /\ opc[t] = "idle" /\ mpc[t] = "idle"
    /\ next_cmd <= MaxCmds
    /\ next_cmd' = next_cmd + 1
    /\ LET c == IF priority THEN stop_cmd ELSE next_cmd
       IN  IF ~is_connected
           THEN /\ command_log' = Logged(command_log, c, FALSE)
                /\ ret' = [ret EXCEPT ![t] = "False"]
                /\ UNCHANGED <<mpc, opc, command, command_string>>
           ELSE /\ command_string' = c
                /\ IF priority
                   THEN /\ Invoke(t, "emergency_stop", "send_command_priority")
                        /\ UNCHANGED command
                   ELSE /\ Invoke(t, "add", "send_command_add")
                        /\ command' = [command EXCEPT ![t] = c]
                /\ UNCHANGED command_log
    /\ UNCHANGED <<mqVars, linkVars, accepted, done_order, stop_calls, wdVars,
                   is_connected, running, motion_queue, watchdog, msg>>
    /\ OrchFrame

\* send_command after the queue's method returned: the priority branch logs
\* the command as sent and returns True; the other logs it as queued when
\* add returned True and returns add's result.
send_command_return(t) ==
    /\ opc[t] \in {"send_command_priority", "send_command_add"}
    /\ mpc[t] = "idle"
    /\ IF opc[t] = "send_command_priority"
       THEN /\ command_log' = Logged(command_log, command_string, TRUE)
            /\ ret' = [ret EXCEPT ![t] = "True"]
       ELSE /\ command_log' = IF ret[t] = "True"
                              THEN Logged(command_log, command_string, FALSE)
                              ELSE command_log
            /\ UNCHANGED ret
    /\ opc' = [opc EXCEPT ![t] = "idle"]
    /\ command_string' = None
    /\ UNCHANGED <<mqVars, linkVars, histVars, wdVars, mpc, command,
                   is_connected, running, motion_queue, watchdog, msg>>
    /\ OrchFrame

\* _update_worker: "while self.running:" and motion_queue.update().
loop_top(t) ==
    /\ opc[t] = "loop_top" /\ mpc[t] = "idle"
    /\ IF running
       THEN Invoke(t, "update", "loop_check")
       ELSE /\ opc' = [opc EXCEPT ![t] = "stopped"]
            /\ UNCHANGED <<mpc, ret>>
    /\ UNCHANGED <<mqVars, linkVars, histVars, wdVars, command, is_connected,
                   running, motion_queue, watchdog, command_log, msg, command_string>>
    /\ OrchFrame

\* _update_worker: "if self.watchdog and self.watchdog.enabled:" then check().
loop_check(t) ==
    /\ opc[t] = "loop_check" /\ mpc[t] = "idle"
    /\ IF watchdog /\ enabled
       THEN Invoke(t, "check", "loop_except")
       ELSE /\ opc' = [opc EXCEPT ![t] = "loop_top"]
            /\ UNCHANGED <<mpc, ret>>
    /\ UNCHANGED <<mqVars, linkVars, histVars, wdVars, command, is_connected,
                   running, motion_queue, watchdog, command_log, msg, command_string>>
    /\ OrchFrame

\* _update_worker: "except WatchdogTimeout:" calls motion_queue.emergency_stop();
\* then, as after a check that raised nothing, sleep and loop.
loop_except(t) ==
    /\ opc[t] = "loop_except" /\ mpc[t] = "idle"
    /\ IF ret[t] = "WatchdogTimeout"
       THEN Invoke(t, "emergency_stop", "loop_top")
       ELSE /\ opc' = [opc EXCEPT ![t] = "loop_top"]
            /\ UNCHANGED <<mpc, ret>>
    /\ UNCHANGED <<mqVars, linkVars, histVars, wdVars, command, is_connected,
                   running, motion_queue, watchdog, command_log, msg, command_string>>
    /\ OrchFrame

\* _listen / _handle_message: while the link runs a complete line arrives;
\* on_message is msg_handler_with_watchdog, whose first statement is
\* watchdog.kick().
listen(t, line) ==
    /\ opc[t] = "listen" /\ mpc[t] = "idle"
    /\ connected
    /\ kick_count < MaxKicks
    /\ msg' = line
    /\ IF watchdog
       THEN Invoke(t, "kick", "msg_handler")
       ELSE /\ opc' = [opc EXCEPT ![t] = "handle_esp32_message"]
            /\ UNCHANGED <<mpc, ret>>
    /\ UNCHANGED <<mqVars, linkVars, histVars, wdVars, command, is_connected,
                   running, motion_queue, watchdog, command_log, command_string>>
    /\ OrchFrame

\* msg_handler_with_watchdog after kick(): heartbeat() when the line is "HB";
\* then the original handler.
msg_handler(t) ==
    /\ opc[t] = "msg_handler" /\ mpc[t] = "idle"
    /\ IF msg = "HB"
       THEN Invoke(t, "heartbeat", "handle_esp32_message")
       ELSE /\ opc' = [opc EXCEPT ![t] = "handle_esp32_message"]
            /\ UNCHANGED <<mpc, ret>>
    /\ UNCHANGED <<mqVars, linkVars, histVars, wdVars, command, is_connected,
                   running, motion_queue, watchdog, command_log, msg, command_string>>
    /\ OrchFrame

\* _handle_esp32_message(msg), the original handler: response_queue.put(msg),
\* then the user's on_response_callback when one is set (its exceptions are
\* caught here).  Back in _handle_message the dispatch by type follows.
handle_esp32_message(t) ==
    /\ opc[t] = "handle_esp32_message" /\ mpc[t] = "idle"
    /\ response_queue' = response_queue + 1
    /\ opc' = [opc EXCEPT ![t] = "dispatch"]
    /\ UNCHANGED <<mqVars, linkVars, thrVars, histVars, wdVars, is_connected,
                   running, motion_queue, watchdog, command_log, msg, command_string,
                   dispVars, callback_errors, obsVars>>

\* _handle_message: the dispatch by type.  DONE:MOVE goes to on_done, a
\* FAULT: line to the queue's fault_handler, which calls clear(); the other
\* types have no subscriber here.
dispatch(t) ==
    /\ opc[t] = "dispatch" /\ mpc[t] = "idle"
    /\ IF msg = "DONE:MOVE" THEN Invoke(t, "on_done", "listen")
       ELSE IF msg = "FAULT:LIMIT" THEN Invoke(t, "clear", "listen")
       ELSE /\ opc' = [opc EXCEPT ![t] = "listen"]
            /\ UNCHANGED <<mpc, ret>>
    /\ msg' = "None"
    /\ UNCHANGED <<mqVars, linkVars, histVars, wdVars, command, is_connected,
                   running, motion_queue, watchdog, command_log, command_string>>
    /\ OrchFrame

\* The steps of the threads inside the communicator and the listener.
OrchStep ==
    \/ connect("caller1")
    \/ \E priority \in BOOLEAN : send_command("caller1", priority)
    \/ send_command_return("caller1")
    \/ loop_top("control")
    \/ loop_check("control")
    \/ loop_except("control")
    \/ \E line \in Messages : listen("reader", line)
    \/ msg_handler("reader")
    \/ handle_esp32_message("reader")
    \/ dispatch("reader")

\* The steps inside the queue's and the watchdog's methods that the
\* communicator reaches.
LayerBody(t) ==
    \/ add(t)
    \/ update(t)
    \/ update_send(t)
    \/ update_commit(t)
    \/ on_done(t)
    \/ on_done_commit(t)
    \/ clear(t)
    \/ emergency_stop(t)
    \/ kick(t)
    \/ heartbeat(t)
    \/ check(t)
    \/ check_lock(t)

\* The clock matters from connect() on, where the watchdog's timers start.
NextOrch ==
    \/ (is_connected /\ Tick)
    \/ OrchStep
    \/ \E t \in Threads : LayerBody(t)

\* A communicator after construction; no link yet.
InitOrch ==
    /\ InitQueue
    /\ InitWatchdog(DefaultTimeout, FALSE)
    /\ InitCommunicator
    /\ InitLink({}, {})

SpecOrch == InitOrch /\ [][NextOrch]_vars

\* Every thread keeps being scheduled: the update loop, the listener's
\* handler and a caller inside send_command take their next step when they
\* can, a thread waiting for a lock that keeps being released gets it; the
\* arrival of lines and the calls of the API are up to the environment.
ControlRuns ==
    \/ LayerBody("control")
    \/ loop_top("control") \/ loop_check("control") \/ loop_except("control")
ReaderRuns ==
    \/ LayerBody("reader")
    \/ msg_handler("reader") \/ handle_esp32_message("reader") \/ dispatch("reader")
CallerRuns == LayerBody("caller1") \/ send_command_return("caller1")

FairOrch ==
    /\ SpecOrch
    /\ SF_vars(ControlRuns)
    /\ SF_vars(ReaderRuns)
    /\ SF_vars(CallerRuns)

\* ------------------------------------------- ESP32Communicator: teardown
\* What the teardown steps leave alone.
ApiFrame ==
    UNCHANGED <<mqVars, wire, histVars, wdVars, command, motion_queue, watchdog,
                command_log, msg, command_string, response_queue, dispVars,
                callback_errors, obsVars>>

\* disconnect(): nothing when not connected; else running = False.
disconnect(t) ==
    /\ opc[t] = "idle" /\ mpc[t] = "idle"
    /\ IF ~is_connected
       THEN /\ ret' = [ret EXCEPT ![t] = "None"]
            /\ UNCHANGED <<running, opc>>
       ELSE /\ running' = FALSE
            /\ opc' = [opc EXCEPT ![t] = "disconnect_join"]
            /\ UNCHANGED ret
    /\ UNCHANGED <<mpc, connected, is_connected>>
    /\ ApiFrame

\* disconnect(): update_thread.join(timeout=2) returns when the update
\* thread has ended or when the two seconds are over, whichever comes first
\* (no step of the update thread is bounded in time); then
\* motion_queue.clear() is called.
disconnect_join(t) ==
    /\ opc[t] = "disconnect_join" /\ mpc[t] = "idle"
    /\ Invoke(t, "clear", "disconnect_disable")
    /\ UNCHANGED <<running, connected, is_connected>>
    /\ ApiFrame

\* disconnect() after clear() returned: watchdog.disable().
disconnect_disable(t) ==
    /\ opc[t] = "disconnect_disable" /\ mpc[t] = "idle"
    /\ IF watchdog
       THEN Invoke(t, "disable", "disconnect_link")
       ELSE /\ opc' = [opc EXCEPT ![t] = "disconnect_link"]
            /\ UNCHANGED <<mpc, ret>>
    /\ UNCHANGED <<running, connected, is_connected>>
    /\ ApiFrame

\* disconnect(): serial_link.disconnect() stops the listener and closes the
\* transport.
disconnect_link(t) ==
    /\ opc[t] = "disconnect_link" /\ mpc[t] = "idle"
    /\ connected' = FALSE
    /\ opc' = [opc EXCEPT ![t] = "disconnect_done"]
    /\ UNCHANGED <<mpc, ret, running, is_connected>>
    /\ ApiFrame

\* disconnect(): is_connected = False.
disconnect_done(t) ==
    /\ opc[t] = "disconnect_done" /\ mpc[t] = "idle"
    /\ is_connected' = FALSE
    /\ opc' = [opc EXCEPT ![t] = "idle"]
    /\ ret' = [ret EXCEPT ![t] = "None"]
    /\ UNCHANGED <<mpc, running, connected>>
    /\ ApiFrame

\* ESP32Communicator.emergency_stop(): with a motion queue (any time after
\* a successful connect) motion_queue.emergency_stop() is called; without
\* one send_command("$STOP$", priority=True), which then finds the
\* communicator not connected, logs the command as not sent and returns
\* False.  Nothing follows either call.
api_emergency_stop(t) ==
    /\ opc[t] = "idle" /\ mpc[t] = "idle"
    /\ next_cmd <= MaxCmds
    /\ next_cmd' = next_cmd + 1
    /\ IF motion_queue
       THEN /\ Invoke(t, "emergency_stop", "idle")
            /\ UNCHANGED command_log
       ELSE /\ command_log' = Logged(command_log, stop_cmd, FALSE)
            /\ ret' = [ret EXCEPT ![t] = "None"]
            /\ UNCHANGED <<mpc, opc>>
    /\ UNCHANGED <<mqVars, linkVars, accepted, done_order, stop_calls, wdVars,
                   command, is_connected, running, motion_queue, watchdog, msg,
                   command_string>>
    /\ OrchFrame

\* The communicator with a second caller that stops and disconnects while
\* the first sends commands.  The clock stands still here: the teardown is
\* looked at within one watchdog period.
NextApi ==
    \/ OrchStep
    \/ \E t \in Threads : LayerBody(t)
    \/ disconnect("caller2")
    \/ disconnect_join("caller2")
    \/ disconnect_disable("caller2")
    \/ disconnect_link("caller2")
    \/ disconnect_done("caller2")
    \/ disable("caller2")
    \/ api_emergency_stop("caller2")

SpecApi == InitOrch /\ [][NextApi]_vars

\* ------------------------------------------- MotionQueue: statistics
\* The keys of the dictionary get_stats() returns, in the order in which the
\* dictionary display evaluates their values.
StatKeys == <<"queued", "busy", "sent", "completed", "dropped", "current">>

\* The attribute read for key number k.
StatValue(k) ==
    CASE k = 1 -> Len(queue)
      [] k = 2 -> busy
      [] k = 3 -> commands_sent
      [] k = 4 -> commands_completed
      [] k = 5 -> commands_dropped
      [] k = 6 -> current_command

\* The value a finished dictionary holds under `key`.
Stat(key) == stats[CHOOSE k \in 1..Len(StatKeys) : StatKeys[k] = key]

\* A thread enters MotionQueue.get_stats().
call_get_stats(t) ==
    /\ mpc[t] = "idle"
    /\ mpc' = [mpc EXCEPT ![t] = "MotionQueue_get_stats"]
    /\ ret' = [ret EXCEPT ![t] = "None"]
    /\ stats' = <<>>
    /\ UNCHANGED <<mqVars, linkVars, command, histVars, wdVars, orchVars, dispVars,
                   callback_errors, rounds, requeued, recent>>

\* get_stats(): the next attribute is read, without self.lock; after the
\* last one the dictionary is returned.
MotionQueue_get_stats(t) ==
    /\ mpc[t] = "MotionQueue_get_stats"
    /\ stats' = Append(stats, StatValue(Len(stats) + 1))
    /\ IF Len(stats') = Len(StatKeys)
       THEN Return(t, "stats")
       ELSE UNCHANGED <<mpc, ret>>
    /\ UNCHANGED <<mqVars, linkVars, command, histVars, wdVars, orchVars, dispVars,
                   callback_errors, rounds, requeued, recent>>

\* The queue at work while the second caller asks for its statistics.
NextStats ==
    \/ \E t \in Threads \ {"caller2"} : MQStep(t)
    \/ call_get_stats("caller2")
    \/ MotionQueue_get_stats("caller2")

SpecStats == Init /\ [][NextStats]_vars

\* ------------------------------------------- ESP32Communicator: command log
\* A log of n entries written earlier, each with a command of its own.
History(n) == [i \in 1..n |-> [command |-> 0 - i - 1, sent |-> FALSE]]

\* A communicator that has logged between max_log_size - MaxCmds and
\* max_log_size commands since it was constructed.
InitLog ==
    /\ InitQueue
    /\ InitWatchdog(DefaultTimeout, FALSE)
    /\ InitLink({}, {})
    /\ is_connected = FALSE
    /\ running = FALSE
    /\ motion_queue = FALSE
    /\ watchdog = FALSE
    /\ \E n \in (max_log_size - MaxCmds)..max_log_size : command_log = History(n)
    /\ opc = [t \in Threads |-> "idle"]
    /\ msg = "None"
    /\ command_string = None
    /\ response_queue = 0

\* _log_command(command_string, sent): the entry is appended and the log cut
\* to its last max_log_size entries.
log_command(c, sent) ==
    /\ next_cmd <= MaxCmds
    /\ next_cmd' = next_cmd + 1
    /\ command_log' = Logged(command_log, c, sent)
    /\ UNCHANGED <<mqVars, linkVars, thrVars, accepted, done_order, stop_calls,
                   wdVars, is_connected, running, motion_queue, watchdog, opc, msg,
                   command_string>>
    /\ OrchFrame

NextLog == \E c \in {next_cmd, stop_cmd} : \E sent \in BOOLEAN : log_command(c, sent)

SpecLog == InitLog /\ [][NextLog]_vars

\* ------------------------------------------- MotionQueue: the test script
\* The script of the module's __main__, run by one thread over a MockSerial:
\* it adds commands, then makes one update() and one simulate_done() per
\* command, sleeping in between, and reads the statistics at the end.
script_add(t) ==
    /\ rounds = 0 /\ ret[t] # "stats"
    /\ next_cmd <= max_size
    /\ call_add(t)

\* The next call of the processing loop: update() in the first half of a
\* cycle, simulate_done(), which calls on_done_move, in the second.
script_cycle(t) ==
    /\ mpc[t] = "idle" /\ ret[t] # "stats"
    /\ rounds < 2 * (next_cmd - 1)
    /\ rounds' = rounds + 1
    /\ mpc' = [mpc EXCEPT ![t] = IF rounds % 2 = 0 THEN "update" ELSE "on_done"]
    /\ ret' = [ret EXCEPT ![t] = "None"]
    /\ UNCHANGED <<mqVars, linkVars, command, histVars, wdVars, orchVars, dispVars,
                   callback_errors, stats, requeued, recent>>

\* update() over MockSerial, whose send returns True.
MockSerial_send(t) == update_send(t) /\ wire' # wire

\* queue.get_stats() after the last cycle.
script_stats(t) ==
    /\ rounds = 2 * (next_cmd - 1) /\ ret[t] # "stats"
    /\ call_get_stats(t)

NextScript ==
    \/ script_add("caller1")
    \/ add("caller1")
    \/ script_cycle("caller1")
    \/ update("caller1")
    \/ MockSerial_send("caller1")
    \/ update_commit("caller1")
    \/ on_done("caller1")
    \/ on_done_commit("caller1")
    \/ script_stats("caller1")
    \/ MotionQueue_get_stats("caller1")
    \/ Tick

SpecScript == Init /\ [][NextScript]_vars

\* ------------------------------------------- MotionQueue: sending only
\* The queue with nobody clearing or stopping it: a caller adds commands, the
\* control loop calls update(), the listener delivers DONE:MOVE.
NextRetry ==
    \/ call_add("caller1")
    \/ add("caller1")
    \/ call("control", "update")
    \/ update("control")
    \/ update_send("control")
    \/ update_commit("control")
    \/ call("reader", "on_done")
    \/ on_done("reader")
    \/ on_done_commit("reader")

SpecRetry == Init /\ [][NextRetry]_vars

\* A send that is tried again and again succeeds at some time.
SendSucceeds == \E t \in Threads : update_send(t) /\ wire' # wire

\* Every thread inside a method goes on, the control loop keeps calling
\* update(), the device answers with DONE:MOVE, and sends do not fail for ever.
FairRetry ==
    /\ SpecRetry
    /\ \A t \in Threads : SF_vars(MQBody(t))
    /\ WF_vars(call("control", "update"))
    /\ WF_vars(call("reader", "on_done"))
    /\ SF_vars(SendSucceeds)

\* ------------------------------------------- MotionQueue: the fault handler
\* The FAULT lines the device sends here.
FaultLines == {<<"FAULT", ":", "STOP">>, <<"FAULT", ":", "MOVE">>}

\* fault_handler that forwards the fault before it clears the queue.
fault_handler_forwards_first(t, m) ==
    /\ opc[t] = "idle" /\ mpc[t] = "idle"
    /\ last_ack' = m
    /\ events' = IF "on_fault" \in subs
                 THEN <<Called("on_fault", fault_type(m))>>
                 ELSE <<>>
    /\ Invoke(t, "clear", "original_fault_handler")
    /\ UNCHANGED <<mqVars, linkVars, command, histVars, wdVars, is_connected,
                   running, motion_queue, watchdog, command_log, msg, command_string,
                   response_queue, subs, raisers, callback_errors, obsVars>>

\* _handle_message gets a FAULT line and calls self.on_fault, which is the
\* queue's fault_handler(fault_type): it calls self.clear().
fault_handler(t, m) ==
    /\ opc[t] = "idle" /\ mpc[t] = "idle"
    /\ last_ack' = m
    /\ events' = <<>>
    /\ Invoke(t, "clear", "original_fault_handler")
    /\ UNCHANGED <<mqVars, linkVars, command, histVars, wdVars, is_connected,
                   running, motion_queue, watchdog, command_log, msg, command_string,
                   response_queue, subs, raisers, callback_errors, obsVars>>

\* fault_handler after clear() has returned: the handler that was on the
\* link when the queue was constructed is called, when there was one.
original_fault_handler(t) ==
    /\ opc[t] = "original_fault_handler" /\ mpc[t] = "idle"
    /\ events' = IF "on_fault" \in subs
                 THEN Append(events, Called("on_fault", fault_type(last_ack)))
                 ELSE events
    /\ opc' = [opc EXCEPT ![t] = "idle"]
    /\ UNCHANGED <<mqVars, linkVars, thrVars, histVars, wdVars, is_connected,
                   running, motion_queue, watchdog, command_log, msg, command_string,
                   response_queue, subs, raisers, last_ack, callback_errors, obsVars>>

\* The queue at work over a link whose listener delivers DONE:MOVE and FAULT
\* lines; the listener calls nothing else while it is inside fault_handler.
NextFault ==
    \/ \E t \in Threads \ {"reader"} : MQStep(t)
    \/ (opc["reader"] = "idle" /\ \E m \in MQMethods("reader") : call("reader", m))
    \/ on_done("reader")
    \/ on_done_commit("reader")
    \/ clear("reader")
    \/ \E m \in FaultLines : fault_handler("reader", m)
    \/ original_fault_handler("reader")

\* The link had a fault handler, or none, when the queue was constructed.
InitFault ==
    /\ InitQueue
    /\ InitWatchdog(DefaultTimeout, FALSE)
    /\ InitCommunicator
    /\ \E set \in SUBSET {"on_fault"} : \E bad \in SUBSET set : InitLink(set, bad)

SpecFault == InitFault /\ [][NextFault]_vars

\* ------------------------------------------- Watchdog: disabled and enabled again
\* The calls one thread makes in turn, as the module's __main__ does in its
\* last test: disable(), enable(), check(), with the clock running.
ToggleCalls == <<"disable", "enable", "check">>

toggle_call(t) ==
    /\ mpc[t] = "idle"
    /\ rounds < Len(ToggleCalls)
    /\ rounds' = rounds + 1
    /\ mpc' = [mpc EXCEPT ![t] = ToggleCalls[rounds + 1]]
    /\ ret' = [ret EXCEPT ![t] = "None"]
    /\ UNCHANGED <<mqVars, linkVars, command, histVars, wdVars, orchVars, dispVars,
                   callback_errors, stats, requeued, recent>>

NextToggle ==
    \/ toggle_call("caller1")
    \/ disable("caller1")
    \/ enable("caller1")
    \/ check("caller1")
    \/ check_lock("caller1")
    \/ Tick

SpecToggle == InitWD /\ [][NextToggle]_vars

\* ------------------------------------------- ESP32Serial: send
\* Command strings: up to MaxLineLen characters, of which "\n" is the line
\* terminator and "$" stands for any other character.
Chars == {"$", "\n"}
Commands == UNION {[1..n -> Chars] : n \in 0..MaxLineLen}

\* command.endswith('\n')
endswith_newline(c) == Len(c) > 0 /\ c[Len(c)] = "\n"

\* send that appends the terminator to every command.
Terminated_always(c) == Append(c, "\n")

\* "if not command.endswith('\n'): command += '\n'"
Terminated(c) == IF endswith_newline(c) THEN c ELSE Append(c, "\n")

\* ESP32Serial.send(command): False when not connected; otherwise the
\* terminated command is written and True returned, or the write raises,
\* which is caught, and False is returned.
ESP32Serial_send(t, c) ==
    /\ mpc[t] = "idle"
    /\ next_cmd <= MaxCmds
    /\ next_cmd' = next_cmd + 1
    /\ \E ok \in SendResults :
         /\ wire' = Written(Terminated(c), ok)
         /\ ret' = [ret EXCEPT ![t] = IF ok THEN "True" ELSE "False"]
    /\ UNCHANGED <<mqVars, connected, mpc, command, accepted, done_order, stop_calls>>
    /\ UNCHANGED notMQ

\* ESP32Serial.disconnect(), and connect() when it succeeds.
ESP32Serial_disconnect ==
    /\ connected
    /\ connected' = FALSE
    /\ UNCHANGED <<mqVars, wire, thrVars, histVars>>
    /\ UNCHANGED notMQ

ESP32Serial_connect ==
    /\ ~connected
    /\ connected' = TRUE
    /\ UNCHANGED <<mqVars, wire, thrVars, histVars>>
    /\ UNCHANGED notMQ

NextSend ==
    \/ \E c \in Commands : ESP32Serial_send("caller1", c)
    \/ ESP32Serial_disconnect
    \/ ESP32Serial_connect

SpecSend == Init /\ [][NextSend]_vars

\* ------------------------------------------- MotionQueue and Watchdog side by side
\* The queue sending and completing commands while a second caller kicks
\* the watchdog, records heartbeats and checks it, with the clock running.
NextCounters ==
    \/ NextRetry
    \/ Tick
    \/ \E m \in {"kick", "heartbeat", "check"} : wd_call("caller2", m)
    \/ kick("caller2")
    \/ heartbeat("caller2")
    \/ check("caller2")
    \/ check_lock("caller2")

SpecCounters == InitWD /\ [][NextCounters]_vars

\* ------------------------------------------- Watchdog: heartbeat monitoring
\* A watchdog constructed with enable_heartbeat=True that is kicked, sent
\* heartbeats and given subscribers by one thread and checked by the control
\* loop; nobody enables, disables or resets it or changes its timeout.
InitHB ==
    /\ InitQueue
    /\ \E period \in Timeouts : InitWatchdog(period, TRUE)
    /\ InitCommunicator
    /\ InitLink({}, {})

NextHB ==
    \/ Tick
    \/ \E m \in {"kick", "heartbeat"} : wd_call("caller1", m)
    \/ \E which \in {"on_timeout", "on_recovery"} : subscribe("caller1", which)
    \/ kick("caller1")
    \/ heartbeat("caller1")
    \/ wd_call("control", "check")
    \/ check("control")
    \/ check_lock("control")

SpecHB == InitHB /\ [][NextHB]_vars

\* ------------------------------------------- ESP32Communicator: get_command_log
MaxCount == 3

\* seq[start:] as Python evaluates it: a negative start counts from the end
\* and is clamped to the beginning, a start beyond the end gives the empty
\* list.  Python's -0 is 0, a start that counts from the beginning.
SliceFrom(seq, start) ==
    LET first == IF start < 0
                 THEN (IF Len(seq) + start < 0 THEN 0 ELSE Len(seq) + start)
                 ELSE (IF start > Len(seq) THEN Len(seq) ELSE start)
    IN  SubSeq(seq, first + 1, Len(seq))

\* get_command_log(count): self.command_log[-count:].
get_command_log(count) ==
    /\ recent' = SliceFrom(command_log, 0 - count)
    /\ UNCHANGED <<mqVars, linkVars, thrVars, histVars, wdVars, orchVars, dispVars,
                   callback_errors, stats, rounds, requeued>>

\* A communicator that has logged up to MaxCmds commands since it was
\* constructed.
InitRecent ==
    /\ InitQueue
    /\ InitWatchdog(DefaultTimeout, FALSE)
    /\ InitLink({}, {})
    /\ is_connected = FALSE
    /\ running = FALSE
    /\ motion_queue = FALSE
    /\ watchdog = FALSE
    /\ command_log = <<>>
    /\ opc = [t \in Threads |-> "idle"]
    /\ msg = "None"
    /\ command_string = None
    /\ response_queue = 0

NextRecent ==
    \/ \E c \in {next_cmd, stop_cmd} : \E sent \in BOOLEAN : log_command(c, sent)
    \/ \E count \in 0..MaxCount : get_command_log(count)

SpecRecent == InitRecent /\ [][NextRecent]_vars

\* ------------------------------------------------- properties: MotionQueue
\* The motion commands written to the transport, in order.
IsMove(frame) == frame # stop_cmd
SentMoves == SelectSeq(wire, IsMove)

\* The command update() has popped and not yet sent or requeued.
InHand ==
    IF \E t \in Threads : mpc[t] = "update_send"
    THEN <<command[CHOOSE t \in Threads : mpc[t] = "update_send"]>>
    ELSE <<>>

RECURSIVE IsSubseq(_, _)
\* s can be obtained from w by deleting elements.
IsSubseq(s, w) ==
    IF s = <<>> THEN TRUE
    ELSE IF w = <<>> THEN FALSE
    ELSE IF Head(s) = Head(w) THEN IsSubseq(Tail(s), Tail(w))
    ELSE IsSubseq(s, Tail(w))

IsPrefix(s, w) == Len(s) <= Len(w) /\ SubSeq(w, 1, Len(s)) = s

\* Thread t completes a step of method label `from` that leaves the label.
Leaves(t, from) == mpc[t] = from /\ mpc'[t] # from

\* C1: at most one command is in flight (sent by update and not released by
\* on_done); busy becomes true only in update()'s step that follows a send
\* that returned True; update() is never about to call send while busy is
\* true; busy becomes false only in a step of on_done, clear or
\* emergency_stop.
C1_OneInFlight ==
    /\ [](Len(SentMoves) - Len(done_order) \in {0, 1})
    /\ [](\A t \in Threads : mpc[t] = "update_send" => ~busy)
    /\ [][(~busy /\ busy') =>
            \E t \in Threads : /\ mpc[t] = "update_send"
                                /\ mpc'[t] = "update_commit"
                                /\ wire' = Append(wire, command[t])]_vars
    /\ [][(wire' # wire /\ IsMove(wire'[Len(wire')])) => (~busy /\ busy')]_vars
    /\ [][(busy /\ ~busy') =>
            \E t \in Threads : \/ Leaves(t, "on_done")
                                \/ Leaves(t, "clear")
                                \/ Leaves(t, "es_clear")]_vars

\* A second command is in flight after the first was completed, one more pending.
C1_Witness ==
    /\ busy /\ current_command # None
    /\ Len(done_order) >= 1
    /\ Len(queue) >= 1
    /\ mpc["control"] = "idle"

\* C2: every emergency_stop() call returns, and when it returns the queue
\* is empty, busy is false, current_command is None and "$STOP$" has been
\* passed to the link's send.
C2_EmergencyStopCompletes ==
    \A t \in Threads :
        (mpc[t] = "emergency_stop") ~>
            (/\ mpc[t] = "idle"
             /\ Len(queue) = 0 /\ ~busy /\ current_command = None
             /\ stop_calls > 0)

\* C5: the queue never holds more than max_size commands, and an add() that
\* finds it full returns False, counts one drop and leaves the queue, busy
\* and current_command as they were.
C5_QueueBound ==
    /\ [](Len(queue) <= max_size)
    /\ [][\A t \in Threads :
            (Leaves(t, "add") /\ Len(queue) >= max_size) =>
                /\ ret'[t] = "False"
                /\ commands_dropped' = commands_dropped + 1
                /\ UNCHANGED <<queue, busy, current_command>>]_vars

\* An add() found the queue full: it returned False and a drop was counted.
C5_Witness ==
    /\ commands_dropped >= 1
    /\ Len(queue) = max_size
    /\ \E t \in Callers : ret[t] = "False"

\* C6: an add() that finds the queue below max_size returns True and appends
\* its command at the tail (so the length grows by exactly one).
C6_AddAppends ==
    [][\A t \in Threads :
        (Leaves(t, "add") /\ Len(queue) < max_size) =>
            /\ ret'[t] = "True"
            /\ queue' = Append(queue, command[t])
            /\ Len(queue') = Len(queue) + 1]_vars

\* Two adds in a row succeeded and filled the queue.
C6_Witness ==
    /\ Len(queue) = max_size
    /\ queue = accepted
    /\ \E t \in Callers : ret[t] = "True"

\* C7: the commands sent, then the one update() holds, then the pending
\* ones are in the order in which their add() calls took effect, also across
\* failed sends; commands complete in the order they were sent.
C7_Fifo ==
    /\ IsSubseq(SentMoves \o InHand \o queue, accepted)
    /\ IsPrefix(done_order, SentMoves)

\* Two commands were sent and completed, and the adds of the two callers took
\* effect in the opposite order of their calls.
C7_Witness ==
    /\ Len(done_order) >= 2
    /\ accepted[1] > accepted[2]
    /\ queue # <<>>

\* C8: whenever no thread holds the queue lock, current_command is not None
\* exactly when busy is true.
C8_CurrentIffBusy ==
    lock = Unlocked => ((current_command # None) <=> busy)

\* After a completion and a further send, between methods.
C8_Witness ==
    /\ lock = Unlocked
    /\ busy /\ current_command # None
    /\ commands_completed >= 1

\* C13: every add() call returns, and every wait_until_empty() call returns
\* with True or False.
C13_AddAndWaitReturn ==
    \A t \in Callers :
        /\ (mpc[t] = "add") ~> (mpc[t] = "idle" /\ ret[t] \in {"True", "False"})
        /\ (mpc[t] \in {"wait_until_empty", "wait_sleep"}) ~>
               (mpc[t] = "idle" /\ ret[t] \in {"True", "False"})

\* ------------------------------------------- properties: ESP32Communicator
\* C3: whenever check() has raised WatchdogTimeout in the update loop, the
\* loop's emergency_stop() call returns with the queue empty, busy false and
\* the stop command passed to the link, and the loop is back at its top.
C3_TimeoutForcesSafeState ==
    (/\ opc["control"] = "loop_except" /\ mpc["control"] = "idle"
     /\ ret["control"] = "WatchdogTimeout")
      ~> (/\ opc["control"] = "loop_top" /\ mpc["control"] = "idle"
          /\ Len(queue) = 0 /\ ~busy /\ current_command = None
          /\ stop_calls > 0)

\* C4: a send_command(cmd, priority=True) made on a connected communicator
\* with commands queued returns True, with the queue empty, busy false and
\* the stop frame passed to the link.
C4_PrioritySendStops ==
    (/\ opc["caller1"] = "send_command_priority"
     /\ mpc["caller1"] = "emergency_stop"
     /\ is_connected /\ Len(queue) >= 1)
      ~> (/\ opc["caller1"] = "idle" /\ mpc["caller1"] = "idle"
          /\ ret["caller1"] = "True"
          /\ Len(queue) = 0 /\ ~busy
          /\ stop_calls > 0)

\* C14: in the connected communicator every line the listener hands to the
\* wrapped handler is put into the response queue, and it is put there only
\* after the watchdog was kicked for it and, for "HB", after heartbeat() has
\* counted it.
C14_KickThenForward ==
    /\ \A n \in 0..MaxKicks :
          (opc["reader"] = "msg_handler" /\ response_queue = n)
              ~> (response_queue = n + 1)
    /\ [][response_queue' # response_queue =>
            /\ kick_count > response_queue
            /\ msg = "HB" => heartbeat_count > 0]_vars

\* What send_command("$STOP$", priority=True) does when thread t calls it:
\* not connected, it logs the command as not sent and returns; connected, it
\* enters motion_queue.emergency_stop().
PrioritySendStep(t) ==
    IF ~is_connected
    THEN /\ command_log' = Logged(command_log, stop_cmd, FALSE)
         /\ mpc'[t] = "idle"
         /\ UNCHANGED <<mqVars, linkVars>>
    ELSE /\ mpc'[t] = "emergency_stop"
         /\ UNCHANGED <<command_log, mqVars, linkVars>>

\* C15: a call of the communicator's emergency_stop() does to the queue, the
\* link and the command log what send_command("$STOP$", priority=True)
\* does from the same state.
C15_StopIsPrioritySend ==
    [][\A t \in Callers : api_emergency_stop(t) => PrioritySendStep(t)]_vars

\* disconnect() has cleared the queue (its clear() call has returned).
QueueCleared ==
    \E t \in Callers :
        \/ opc[t] = "disconnect_disable" /\ mpc[t] = "idle"
        \/ opc[t] \in {"disconnect_link", "disconnect_done"}

\* C20: disconnect() clears the queue after it has set running to false and
\* waited for the loop, disables the watchdog after the queue is cleared,
\* disconnects the link after the watchdog is disabled, and once the queue
\* is cleared the update loop passes no command to the link.
C20_TeardownOrder ==
    /\ [][\A t \in Callers :
            /\ (opc[t] = "disconnect_disable" /\ Leaves(t, "clear")) =>
                   (~running /\ enabled /\ connected)
            /\ (opc[t] = "disconnect_link" /\ Leaves(t, "disable")) =>
                   (~running /\ connected)
            /\ (opc[t] = "disconnect_link" /\ connected /\ ~connected') =>
                   (~running /\ ~enabled)]_vars
    /\ [][QueueCleared => Len(SentMoves') = Len(SentMoves)]_vars

\* --------------------------------------------------- properties: ESP32Serial
\* The listener has finished the generic call for the line in last_ack.
PastGeneric == last_ack # <<>> /\ opc["reader"] # "handle_message"
\* The listener has finished the whole dispatch of the line in last_ack.
Dispatched == last_ack # <<>> /\ opc["reader"] = "link_listen"

IsSpecificCall(e) == e.sub # "on_message"
SpecificCalls == SelectSeq(events, IsSpecificCall)

\* C16: the fault subscriber is called with "UNKNOWN" when nothing follows
\* the prefix "FAULT:", and otherwise with what follows it.
C16_FaultReason ==
    \A i \in 1..Len(events) :
        events[i].sub = "on_fault" =>
            LET rest == SubSeq(last_ack, 3, Len(last_ack))
            IN  events[i].arg = IF rest = <<>> THEN <<"UNKNOWN">> ELSE rest

\* C17: once the generic call for a line is over, the generic subscriber
\* (when one is set) has been called exactly once, with the line, as the
\* first call made for it, whatever the line is and whether or not a
\* specific subscriber is set.
C17_GenericFirst ==
    (PastGeneric /\ "on_message" \in subs) =>
        /\ events # <<>>
        /\ events[1].sub = "on_message" /\ events[1].arg = last_ack
        /\ \A i \in 2..Len(events) : events[i].sub # "on_message"

\* A line of no known type was dispatched: the generic subscriber was called
\* with it and nothing else was, although the specific ones are set.
C17_Witness ==
    /\ Dispatched
    /\ last_ack = <<"HB", ":", "HB">>
    /\ Specific \subseteq subs
    /\ Len(events) = 1 /\ events[1].sub = "on_message"

\* The specific event the protocol assigns to a line.
EventOf(m) ==
    CASE m = <<"ACK", ":", "MOVE">> -> "on_ack_move"
      [] m = <<"DONE", ":", "MOVE">> -> "on_done_move"
      [] m = <<"ACK", ":", "STOP">> -> "on_ack_stop"
      [] m = <<"HB">> -> "on_heartbeat"
      [] Len(m) >= 2 /\ m[1] = "FAULT" /\ m[2] = ":" -> "on_fault"
      [] OTHER -> "none"

\* C18: a dispatched line has caused at most one specific call; it went to
\* the subscriber of the line's event, and it was made when that subscriber
\* is set; a line with no event has caused none.
C18_OneSpecificEvent ==
    Dispatched =>
        /\ Len(SpecificCalls) <= 1
        /\ \A i \in 1..Len(SpecificCalls) : SpecificCalls[i].sub = EventOf(last_ack)
        /\ (EventOf(last_ack) \in subs) => Len(SpecificCalls) = 1
        /\ (EventOf(last_ack) = "none") => SpecificCalls = <<>>

\* "ACK:STOP" went to on_ack_stop, after the generic call.
C18_Witness ==
    /\ Dispatched
    /\ last_ack = <<"ACK", ":", "STOP">>
    /\ Len(events) = 2 /\ events[2].sub = "on_ack_stop"

\* C19: an exception of a subscriber is caught where the subscriber is
\* called.  After a generic subscriber that raised, the specific subscriber
\* of the line is still called, and after any call the listener goes on; a
\* check() whose timeout subscriber raised still records the fault and
\* raises WatchdogTimeout (nothing else) with the lock released, and a kick()
\* whose recovery subscriber raised still clears the fault and returns.
C19_SubscriberErrorsCaught ==
    /\ [](Dispatched => (EventOf(last_ack) \in subs => Len(SpecificCalls) = 1))
    /\ [](opc["reader"] \in {"link_listen", "handle_message", "handle_message_type"})
    /\ [][\A t \in Threads :
            (/\ Leaves(t, "check_lock")
             /\ ~fault_detected /\ ResponseOverrun
             /\ on_timeout /\ "on_timeout" \in raisers) =>
                /\ mpc'[t] = "idle" /\ ret'[t] = "WatchdogTimeout"
                /\ fault_detected' /\ timeout_count' = timeout_count + 1
                /\ wd_lock' = Unlocked]_vars
    /\ [][\A t \in Threads :
            (/\ Leaves(t, "kick")
             /\ fault_detected
             /\ on_recovery /\ "on_recovery" \in raisers) =>
                /\ mpc'[t] = "idle" /\ ret'[t] = "None"
                /\ ~fault_detected' /\ kick_count' = kick_count + 1
                /\ wd_lock' = Unlocked]_vars

\* Both subscribers of a line raised and both were called; the watchdog's
\* timeout subscriber raised in a check() that raised WatchdogTimeout, and
\* its recovery subscriber raised in the kick() that cleared the fault.
C19_Witness ==
    /\ Dispatched
    /\ Len(events) = 2 /\ events[1].raised /\ events[2].raised
    /\ callback_errors = 2
    /\ ret["control"] = "WatchdogTimeout" /\ mpc["control"] = "idle"
    /\ ~fault_detected /\ mpc["caller1"] = "idle"

\* ---------------------------------------------------- properties: Watchdog
\* C9: a check() that runs its body with no fault pending and more than
\* timeout elapsed since the last response sets fault_detected, adds one to
\* timeout_count, invokes the timeout subscriber once and raises
\* WatchdogTimeout; a check() that runs with the fault pending leaves
\* fault_detected true, timeout_count alone, invokes nothing and raises
\* nothing.
C9_FaultFiresOnce ==
    [][\A t \in Threads :
        Leaves(t, "check_lock") =>
            /\ (~fault_detected /\ now - last_response > timeout) =>
                   /\ fault_detected'
                   /\ timeout_count' = timeout_count + 1
                   /\ timeout_calls' = timeout_calls + (IF on_timeout THEN 1 ELSE 0)
                   /\ ret'[t] = "WatchdogTimeout"
            /\ fault_detected =>
                   /\ fault_detected'
                   /\ timeout_count' = timeout_count
                   /\ timeout_calls' = timeout_calls
                   /\ ret'[t] = "None"]_vars

\* One check() raised, the subscriber ran once, and a later check() by the
\* other thread returned normally with the overrun and the fault still there.
C9_Witness ==
    /\ fault_detected /\ now - last_response > timeout
    /\ timeout_count = 1 /\ timeout_calls = 1 /\ kick_count = 0
    /\ mpc["caller1"] = "idle" /\ ret["caller1"] = "WatchdogTimeout"
    /\ mpc["control"] = "idle" /\ ret["control"] = "None"

\* C10: a kick() made with the fault pending clears fault_detected and
\* invokes the recovery subscriber (when one is set) once; a kick() made with
\* no fault pending invokes nothing.
C10_KickRecovers ==
    [][\A t \in Threads :
        Leaves(t, "kick") =>
            /\ ~fault_detected'
            /\ fault_detected =>
                   recovery_calls' = recovery_calls + (IF on_recovery THEN 1 ELSE 0)
            /\ ~fault_detected => recovery_calls' = recovery_calls]_vars

\* After a fault, one kick brought one recovery call; a second kick none.
C10_Witness ==
    /\ ~fault_detected
    /\ timeout_count = 1
    /\ on_recovery /\ recovery_calls = 1
    /\ kick_count = 2

\* C12: every heartbeat() call returns, and when it has returned the
\* heartbeat and the kick have both been counted, the response timer is not
\* older than the heartbeat timer and no fault is pending.
C12_HeartbeatCompletes ==
    \A t \in Threads :
        (mpc[t] = "heartbeat") ~>
            (/\ mpc[t] = "idle"
             /\ heartbeat_count > 0 /\ kick_count > 0
             /\ last_response >= last_heartbeat)

\* C11 as stated: fault_detected changes from false to true only in a step of
\* check(), and from true to false only in a step of kick().
C11_ClearedOnlyByKick ==
    [][/\ (~fault_detected /\ fault_detected') =>
            \E t \in Threads : Leaves(t, "check_lock")
       /\ (fault_detected /\ ~fault_detected') =>
            \E t \in Threads : Leaves(t, "kick") \/ Leaves(t, "hb_kick")]_vars

\* C11 amended: fault_detected changes from false to true only in a step of
\* check(), and from true to false only in a step of kick() or of reset();
\* enable, disable, set_timeout, heartbeat's own statements, is_healthy and
\* get_stats leave it as it is.
C11_ClearedByKickOrReset ==
    [][/\ (~fault_detected /\ fault_detected') =>
            \E t \in Threads : Leaves(t, "check_lock")
       /\ (fault_detected /\ ~fault_detected') =>
            \E t \in Threads : \/ Leaves(t, "kick")
                                \/ Leaves(t, "hb_kick")
                                \/ Leaves(t, "reset")]_vars

\* A fault was raised, the watchdog was disabled, and with no kick at all a
\* reset() has cleared the fault.
C11_Witness ==
    /\ ~fault_detected
    /\ timeout_count = 1 /\ kick_count = 0
    /\ ~enabled
    /\ mpc["caller1"] = "idle" /\ mpc["control"] = "idle"

\* ------------------------------------------- properties: statistics
\* C21: the dictionary MotionQueue.get_stats() returns holds values of one
\* queue state: its "busy" is true exactly when its "current" is a command.
C21_StatsNotTorn ==
    \A t \in Threads :
        (mpc[t] = "idle" /\ ret[t] = "stats") =>
            (Stat("busy") <=> Stat("current") # None)

\* ------------------------------------------- properties: command log
\* C22: send_command on a communicator that is not connected, with either
\* priority, returns False, appends exactly one entry with sent = False to
\* the command log, enters no queue method and changes neither the queue
\* nor the link.
C22_NotConnectedSend ==
    [][\A t \in Callers : \A p \in BOOLEAN :
          (send_command(t, p) /\ ~is_connected) =>
              /\ ret'[t] = "False"
              /\ Len(command_log') = Len(command_log) + 1
              /\ SubSeq(command_log', 1, Len(command_log)) = command_log
              /\ command_log'[Len(command_log')] =
                    [command |-> IF p THEN stop_cmd ELSE next_cmd, sent |-> FALSE]
              /\ UNCHANGED <<mqVars, linkVars, mpc>>]_vars

\* A communicator that was connected and is no longer, with a priority and an
\* ordinary command both logged as not sent and nothing written or queued.
C22_Witness ==
    /\ ~is_connected /\ motion_queue
    /\ ret["caller1"] = "False"
    /\ \E i, j \in 1..Len(command_log) :
          /\ command_log[i] = [command |-> stop_cmd, sent |-> FALSE]
          /\ command_log[j].command # stop_cmd /\ ~command_log[j].sent
    /\ wire = <<>> /\ queue = <<>>

\* C23: the command log is a bounded ring.  It never holds more than
\* max_log_size entries, and every _log_command leaves the former entries in
\* their order followed by the new one, less the oldest entry when the log
\* was full.
C23_LogIsRing ==
    /\ [](Len(command_log) <= max_log_size)
    /\ [][(\E c \in {next_cmd, stop_cmd} : \E sent \in BOOLEAN : log_command(c, sent)) =>
            LET evicted == Len(command_log) + 1 - Len(command_log')
            IN  /\ evicted = (IF Len(command_log) = max_log_size THEN 1 ELSE 0)
                /\ \A i \in 1..(Len(command_log') - 1) :
                      command_log'[i] = command_log[i + evicted]
                /\ command_log'[Len(command_log')].command \in {next_cmd, stop_cmd}]_vars

\* A full log that has lost its oldest entries and ends with the newest command.
C23_Witness ==
    /\ Len(command_log) = max_log_size
    /\ command_log[1].command < History(2)[2].command
    /\ command_log[max_log_size].command = MaxCmds
    /\ command_log[max_log_size - 1].command = stop_cmd

\* ------------------------------------------- properties: MotionQueue, sequential
\* C24: n <= max_size commands added to an idle queue over a link whose send
\* always succeeds, then n cycles of update() followed by one DONE:MOVE: at
\* the end sent = n, completed = n, the queue is empty and busy is false, and
\* get_stats() reports just that.
C24_CyclesComplete ==
    LET n == next_cmd - 1
    IN  (mpc["caller1"] = "idle" /\ rounds = 2 * n) =>
            /\ commands_sent = n
            /\ commands_completed = n
            /\ Len(queue) = 0
            /\ ~busy
            /\ ret["caller1"] = "stats" => stats = <<0, FALSE, n, n, 0, None>>

\* The script has run max_size cycles and holds the statistics.
C24_Witness ==
    /\ rounds = 2 * max_size
    /\ next_cmd - 1 = max_size
    /\ commands_completed = max_size
    /\ ret["caller1"] = "stats"
    /\ done_order = accepted

\* ------------------------------------------- properties: locks
\* The positions at which a thread is about to take the queue's lock, and
\* those at which it is about to take the watchdog's.
AcquiresLock ==
    {"add", "update", "on_done", "clear", "es_clear", "emergency_stop",
     "wait_until_empty"}
AcquiresWdLock ==
    {"kick", "hb_kick", "heartbeat", "check_lock", "is_healthy", "gs_is_healthy",
     "get_stats", "enable", "disable", "reset", "set_timeout"}

\* C25: no operation of the queue or the watchdog tries to take a component
\* lock that the same thread already holds.
C25_NoSelfDeadlock ==
    \A t \in Threads :
        /\ mpc[t] \in AcquiresLock => lock # t
        /\ mpc[t] \in AcquiresWdLock => wd_lock # t

\* ------------------------------------------- properties: MotionQueue, failed sends
\* update() returns from its send without having sent.
SendFailed(t) == mpc[t] = "update_send" /\ mpc'[t] = "idle"

\* C26: when update() has popped the head and the send returns False, the
\* command goes back to the head, so that the queue is what it was when
\* update() took the lock; busy stays false, current_command stays None and
\* commands_sent is unchanged; the command is the one the next update()
\* pops, and where sends do not fail for ever every queued command is sent.
C26_FailedSendRequeued ==
    /\ [][\A t \in Threads :
            /\ (mpc[t] = "update" /\ mpc'[t] = "update_send") =>
                  queue = <<command'[t]>> \o queue'
            /\ (mpc[t] = "update_send" /\ mpc'[t] = "update_send") => queue' = queue
            /\ SendFailed(t) =>
                  /\ queue' = <<command[t]>> \o queue
                  /\ Head(queue') = command[t]
                  /\ ~busy /\ ~busy'
                  /\ current_command = None /\ current_command' = None
                  /\ commands_sent' = commands_sent
                  /\ wire' = wire
                  /\ lock' = Unlocked]_vars
    /\ \A c \in 1..MaxCmds :
          (\E i \in 1..Len(queue) : queue[i] = c) ~> (\E i \in 1..Len(wire) : wire[i] = c)

\* A send has failed, and every command added was sent, in the order of the adds.
C26_Witness ==
    /\ requeued
    /\ Len(accepted) >= 2
    /\ wire = accepted
    /\ queue = <<>>

\* ------------------------------------------- properties: MotionQueue, clear and on_done
\* C27: clear() empties the queue and leaves busy, current_command and the
\* three counters as they are; busy goes back to false only in on_done or in
\* emergency_stop.
C27_ClearKeepsFlight ==
    /\ [][\A t \in Threads :
            (mpc[t] = "clear" /\ mpc'[t] = "idle") =>
                /\ queue' = <<>>
                /\ UNCHANGED <<busy, current_command, commands_sent,
                               commands_completed, commands_dropped>>]_vars
    /\ [][(busy /\ ~busy') =>
            \E t \in Threads : mpc[t] \in {"on_done", "es_clear"} /\ mpc'[t] # mpc[t]]_vars

\* A command is in flight, nothing is queued or in hand, nobody has stopped
\* the queue, and yet more commands were accepted than sent: clear() dropped
\* the rest and left the command in flight.
C27_Witness ==
    /\ busy /\ current_command # None
    /\ queue = <<>> /\ InHand = <<>>
    /\ \A t \in Threads : mpc[t] = "idle"
    /\ stop_calls = 0
    /\ Len(accepted) > commands_sent

\* ------------------------------------------- properties: MotionQueue, faults
\* C28: for every FAULT line the queue's clear() runs, and has emptied the
\* queue, before the fault handler found on the link at construction is
\* called; that handler is called once, with the line's fault type.  What
\* was pending does not come back: an entry of the queue was there the step
\* before, or add() has just accepted it, or update() has put it back, and
\* update() holds the lock, which clear() needs, while it has a command in hand.
C28_ClearBeforeForward ==
    /\ [][\A t \in Threads :
            (opc[t] = "original_fault_handler" /\ mpc[t] = "clear" /\ mpc'[t] = "idle")
                => (queue' = <<>> /\ events = <<>> /\ events' = <<>>)]_vars
    /\ [][(events' # events /\ events' # <<>>) =>
            /\ \E t \in Threads : opc[t] = "original_fault_handler" /\ mpc[t] = "idle"
            /\ events' = <<Called("on_fault", fault_type(last_ack))>>]_vars
    /\ [](\A t \in Threads :
            opc[t] = "original_fault_handler" => (events = <<>> /\ mpc[t] \in {"clear", "idle"}))
    /\ [][\A i \in 1..Len(queue') :
            \/ \E j \in 1..Len(queue) : queue[j] = queue'[i]
            \/ accepted' = Append(accepted, queue'[i])
            \/ \E t \in Threads : SendFailed(t) /\ command[t] = queue'[i]]_vars
    /\ [](\A t \in Threads : mpc[t] = "update_send" => lock = t)

\* The handler has been called for a fault that found commands pending, and
\* these were dropped: more commands accepted than sent, none queued or in hand.
C28_Witness ==
    /\ events = <<Called("on_fault", <<"STOP">>)>>
    /\ \A t \in Threads : mpc[t] = "idle" /\ opc[t] = "idle"
    /\ queue = <<>> /\ InHand = <<>>
    /\ stop_calls = 0
    /\ Len(accepted) > commands_sent

\* C29: on_done() while the queue is not busy changes nothing (busy,
\* current_command, queue and commands_completed keep their values); while
\* it is busy it sets busy to false and current_command to None and adds
\* one to commands_completed, under one hold of the lock.
C29_OnDoneEffect ==
    /\ [][\A t \in Threads :
            /\ (mpc[t] = "on_done" /\ mpc'[t] # "on_done") =>
                  IF busy
                  THEN mpc'[t] = "on_done_commit" /\ ~busy' /\ lock' = t
                  ELSE /\ mpc'[t] = "idle"
                       /\ UNCHANGED <<busy, current_command, queue,
                                      commands_completed>>
            /\ (mpc[t] = "on_done_commit" /\ mpc'[t] # "on_done_commit") =>
                  /\ mpc'[t] = "idle"
                  /\ ~busy'
                  /\ current_command' = None
                  /\ commands_completed' = commands_completed + 1
                  /\ queue' = queue]_vars
    /\ [](\A t \in Threads : mpc[t] = "on_done_commit" => (lock = t /\ ~busy))

\* One command has completed and a second DONE:MOVE is being handled while
\* the queue is not busy.
C29_Witness ==
    /\ commands_completed >= 1
    /\ mpc["reader"] = "on_done"
    /\ ~busy /\ current_command = None
    /\ lock = Unlocked
    /\ queue # <<>>

\* ------------------------------------------- properties: Watchdog, heartbeat
\* C30: with heartbeat monitoring on, a check() made without a fault flagged
\* and more than 1.5 times the timeout after the last heartbeat reports a
\* timeout, also when the last response is no older than the timeout; and a
\* check() that finds both limits passed makes one fault transition: the
\* flag is set, timeout_count grows by one, on_timeout is called once and one
\* WatchdogTimeout is reported.
C30_HeartbeatPath ==
    [][\A t \in Threads :
        (/\ Leaves(t, "check_lock")
         /\ ~fault_detected
         /\ enable_heartbeat
         /\ 2 * (now - last_heartbeat) > 3 * timeout) =>
            /\ fault_detected'
            /\ timeout_count' = timeout_count + 1
            /\ timeout_calls' = timeout_calls + (IF on_timeout THEN 1 ELSE 0)
            /\ ret'[t] = "WatchdogTimeout"]_vars

\* The control loop's check() has reported a timeout although kick() was
\* called, and the last response is recent: no heartbeat() was ever called
\* and the last heartbeat time is too old.
C30_Witness ==
    /\ enable_heartbeat
    /\ fault_detected
    /\ ret["control"] = "WatchdogTimeout" /\ mpc["control"] = "idle"
    /\ kick_count >= 1 /\ heartbeat_count = 0
    /\ now - last_response <= timeout
    /\ 2 * (now - last_heartbeat) > 3 * timeout
    /\ timeout_count = 1 /\ timeout_calls = 1

\* ------------------------------------------- properties: Watchdog, enable and disable
\* C31: while the watchdog is disabled a step of check() changes neither
\* fault_detected nor timeout_count nor the two timers, calls no subscriber
\* and reports no timeout.
C31_DisabledCheckNoEffect ==
    [][\A t \in Threads :
        (mpc[t] \in {"check", "check_lock"} /\ mpc'[t] # mpc[t] /\ ~enabled) =>
            /\ UNCHANGED <<fault_detected, timeout_count, last_response,
                           last_heartbeat, timeout_calls, callback_errors>>
            /\ ret'[t] # "WatchdogTimeout"]_vars

\* C32: after disable() and, any time later, enable(), the check() that
\* follows at once (the clock has not moved since enable()) reports no
\* timeout, with heartbeat monitoring off or on.
C32_EnableThenCheck ==
    (/\ rounds = Len(ToggleCalls)
     /\ mpc["caller1"] = "idle"
     /\ last_response = now) => ret["caller1"] # "WatchdogTimeout"

\* ------------------------------------------- properties: MotionQueue, DONE during update
\* C33: update() holds the lock from its pop to the end, across the send and
\* the assignment of busy, so an on_done() for a command that was written
\* and is not yet counted completed finds busy true and completes it.
C33_DoneDuringUpdate ==
    /\ [](\A t \in Threads : mpc[t] \in {"update_send", "update_commit"} => lock = t)
    /\ [][\A t \in Threads :
            (Leaves(t, "on_done") /\ Len(SentMoves) > commands_completed) =>
                (busy /\ mpc'[t] = "on_done_commit")]_vars
    /\ [][\A t \in Threads :
            Leaves(t, "on_done_commit") =>
                commands_completed' = commands_completed + 1]_vars

\* The listener has dispatched DONE:MOVE and waits for the lock while
\* update() has written the first command and not yet counted it.
C33_Witness ==
    /\ mpc["control"] = "update_commit"
    /\ mpc["reader"] = "on_done"
    /\ wire = <<1>>
    /\ commands_sent = 0

\* ------------------------------------------- properties: ESP32Serial, send
\* C34: send() on a link that is not connected returns False and writes
\* nothing.  On a connected link it returns True after it has written one
\* frame, which is the command when that ends with the line terminator and
\* the command followed by one terminator when it does not; or the write
\* fails, nothing is written and it returns False.  Nothing else is returned.
C34_SendTerminates ==
    [][\A c \in Commands :
        ESP32Serial_send("caller1", c) =>
            \/ /\ ret'["caller1"] = "False"
               /\ wire' = wire
            \/ /\ connected
               /\ ret'["caller1"] = "True"
               /\ Len(wire') = Len(wire) + 1
               /\ SubSeq(wire', 1, Len(wire)) = wire
               /\ LET frame == wire'[Len(wire')]
                  IN  IF Len(c) > 0 /\ c[Len(c)] = "\n"
                      THEN frame = c
                      ELSE frame = c \o <<"\n">>]_vars

\* The link is down and the last send returned False; before that one
\* command got its terminator and one, which had it, was written as it was.
C34_Witness ==
    /\ ~connected
    /\ ret["caller1"] = "False"
    /\ wire = << <<"$", "\n", "$", "\n">>, <<"\n">> >>
    /\ next_cmd > MaxCmds

\* ------------------------------------------- properties: MotionQueue, no timeout in flight
\* C35: update() on a busy queue returns without a change to the queue or the
\* link; the passing of time changes neither; and while busy is true no
\* motion command is written.  A command added behind one in flight waits
\* until on_done or emergency_stop makes busy false.
C35_BusyNeverTimesOut ==
    /\ [][\A t \in Threads :
            (Leaves(t, "update") /\ busy) =>
                (mpc'[t] = "idle" /\ UNCHANGED <<mqVars, linkVars>>)]_vars
    /\ [][now' # now => UNCHANGED <<mqVars, linkVars>>]_vars
    /\ [][busy => SentMoves' = SentMoves]_vars

\* The clock has run out with a command still in flight; clear() has dropped
\* what was pending, and a command added afterwards is still queued.
C35_Witness ==
    /\ now = MaxTime
    /\ busy /\ commands_completed = 0
    /\ queue # <<>>
    /\ Len(accepted) > commands_sent + Len(queue)
    /\ \A t \in Threads : mpc[t] = "idle"
    /\ stop_calls = 0

\* ------------------------------------------- properties: counters
\* C36: the counters of the queue (sent, completed, dropped) and of the
\* watchdog (kicks, timeouts, heartbeats) never decrease, and
\* commands_completed never exceeds commands_sent.
C36_CountersGrow ==
    /\ [][/\ commands_sent' >= commands_sent
          /\ commands_completed' >= commands_completed
          /\ commands_dropped' >= commands_dropped
          /\ kick_count' >= kick_count
          /\ timeout_count' >= timeout_count
          /\ heartbeat_count' >= heartbeat_count]_vars
    /\ [](commands_completed <= commands_sent)

\* Every one of the six counters has counted.
C36_Witness ==
    /\ commands_sent >= 1 /\ commands_completed >= 1 /\ commands_dropped >= 1
    /\ kick_count >= 1 /\ timeout_count >= 1 /\ heartbeat_count >= 1

\* ------------------------------------------- properties: Watchdog, heartbeat faults
\* C37: with heartbeat monitoring on, a fault that check() has flagged for
\* the heartbeat limit (the response timer is within the timeout, and only
\* kick() could have moved it, which clears the flag) stays flagged, and
\* on_recovery is not called, in every step that is not a step of heartbeat().
C37_HeartbeatFaultPersists ==
    [][(/\ enable_heartbeat
        /\ fault_detected
        /\ now - last_response <= timeout) =>
            \/ fault_detected' /\ recovery_calls' = recovery_calls
            \/ \E t \in Threads : /\ mpc[t] \in {"heartbeat", "hb_kick"}
                                  /\ mpc'[t] # mpc[t]]_vars

\* ------------------------------------------- properties: Watchdog, timeout counter
\* C38: in every step of every watchdog operation the timeout counter grows
\* by one exactly when fault_detected goes from false to true, which happens
\* exactly when a check() returns WatchdogTimeout to its caller, and the
\* registered timeout subscriber is invoked once in exactly those steps; no
\* operation, reset() included, takes the counter back.  All four counts
\* start at zero, so the subscriber is never invoked more often than the
\* counter says.
C38_TimeoutCountExact ==
    /\ [](timeout_calls <= timeout_count)
    /\ [][LET rise == ~fault_detected /\ fault_detected'
              reported == \E t \in Threads : /\ Leaves(t, "check_lock")
                                            /\ ret'[t] = "WatchdogTimeout"
          IN  /\ timeout_count' = timeout_count + (IF rise THEN 1 ELSE 0)
              /\ rise <=> reported
              /\ timeout_calls' =
                   timeout_calls + (IF rise /\ on_timeout THEN 1 ELSE 0)]_vars

C38_Witness ==
    /\ timeout_count = 2 /\ timeout_calls = 2
    /\ ~fault_detected /\ kick_count = 1
    /\ \E t \in Threads : mpc[t] = "idle" /\ ret[t] = "WatchdogTimeout"
    /\ wd_lock = Unlocked

\* ------------------------------------------- properties: ESP32Communicator, get_command_log
\* C39: for every count >= 0 and every log, get_command_log(count) returns
\* the last min(count, len) entries of the log in their order, and never
\* more than count entries.
C39_RecentEntries ==
    [][\A count \in 0..MaxCount :
        get_command_log(count) =>
            LET n == IF count < Len(command_log) THEN count ELSE Len(command_log)
            IN  /\ Len(recent') <= count
                /\ recent' = SubSeq(command_log, Len(command_log) - n + 1,
                                    Len(command_log))]_vars

====
